---- MODULE Spec2Model ----
(***************************************************************************)
(* Ludo (clembench game): the Turn Engine (master.py, game.py), the move   *)
(* parser (player.py), the Legality Checker (master.py _check_move) and    *)
(* the Sequence Oracle (instancegenerator.py find_*_minimum).              *)
(*                                                                         *)
(* Three specifications share the variables:                               *)
(*   Spec     one episode of LudoGameMaster.play                           *)
(*   SpecChk  _check_move applied to one (tokens, move, roll) input        *)
(*   SpecDP   find_multitoken_minimum / find_monotoken_minimum applied to  *)
(*            one (rolls, n_fields, X, Y, index) input                     *)
(***************************************************************************)
EXTENDS Integers, Sequences, FiniteSets, TLC

VARIABLES
    n_tokens,           \* Game.n_tokens: tokens per side (1 or 2)
    n_sides,            \* len(players_dic): 1, or 2 when player_2 exists
    reprompting,        \* LudoGameMaster.reprompting
    rolls,              \* Game.rolls: one entry per turn (int, or a pair)
    tokens,             \* players_dic[p].tokens: name -> [in_play, position]
    current_state,      \* Game.current_state: the board snapshot
    turn,               \* Game.turn
    index,              \* position of the for loop over players_dic (0-based)
    is_aborted,         \* Game.is_aborted
    reprompt_attempts,  \* Game.reprompt_attempts
    total_retry_count,  \* Game.total_retry_count
    error_count,        \* Game.error_count
    error,              \* LudoGameMaster.error: <<kind, token>> or None
    pc,                 \* where play() stands: loop, prompt, done, end, raised
    exc,                \* the exception that left play(), or None
    game_result,        \* the status play() logs after the loop
    failed,             \* history: failed replies of this side in this turn
    asked,              \* history: replies requested so far in the episode
    last,               \* history: what became of the last reply
    chk,                \* SpecChk: the input of _check_move and its result
    dp                  \* SpecDP: the input of a solver call and its result

vars == <<n_tokens, n_sides, reprompting, rolls, tokens, current_state, turn,
          index, is_aborted, reprompt_attempts, total_retry_count,
          error_count, error, pc, exc, game_result, failed, asked, last, chk,
          dp>>

engine_vars == <<n_tokens, n_sides, reprompting, rolls, tokens, current_state,
                 turn, index, is_aborted, reprompt_attempts,
                 total_retry_count, error_count, error, pc, exc, game_result,
                 failed, asked, last>>

----------------------------------------------------------------------------
(* Bounds of the model *)

\* n_fields of the episodes
NFields == 3
\* len(rolls) of the episodes
TurnLimit == 3
\* a reply names targets in 0..NFields + ExtraTarget
ExtraTarget == 1
\* n_fields of the inputs of _check_move
ChkFields == 8
\* n_fields of the inputs of the solvers
DPFields == 4
\* len(rolls) of the inputs of the solvers
MaxRolls == 3

\* the die faces the episodes' dice sequences are drawn from
Faces == {1, 2, 6}

(* Program constants *)
REPROMPT_LIMIT == 3
DieFaces == 6
\* float('inf'): absorbs + 1, larger than every count
Inf == 1000

None == "None"
\* Python False, as _check_game_status returns it for a game in progress
False == "False"
\* the empty field character of the board snapshot
EMPTY == "_"
\* self.error = None, and the value of a pass of _check_move that appends True
NoError == <<None, None>>
OK == <<"ok", None>>

Players == <<"Player 1", "Player 2">>

----------------------------------------------------------------------------
(* player.py *)

\* LudoPlayer._initialize_tokens: the names of a side's tokens, in dict order
TokenNames(kind, n) ==
    LET names == IF kind = "Model" THEN <<"X", "Y">> ELSE <<"A", "B">>
    IN  SubSeq(names, 1, n)

\* LudoPlayer._create_token_dictionary
create_token_dictionary(names) ==
    [t \in {names[i] : i \in DOMAIN names} |->
        [in_play |-> FALSE, position |-> 0]]

\* dict key order of a token dictionary or of a parsed move
Keys(d) == SelectSeq(<<"X", "Y", "A", "B">>, LAMBDA t : t \in DOMAIN d)

\* A reply text is modelled by the items "<Tok> -> <value>" that follow
\* "MY MOVE:", joined by " ; "; value -1 stands for a value that is no \d+.
\* re.search of the pattern built from the side's token names.
Matches(text, names) ==
    /\ Len(text) >= Len(names)
    /\ \A i \in DOMAIN names : text[i][1] = names[i] /\ text[i][2] >= 0

\* parse_text: token_dict is built from matches.group(..) before matches is
\* tested, so a reply without a match raises AttributeError.
parse_text(text, names) ==
    IF Matches(text, names)
    THEN [raised |-> None,
          move |-> [t \in {names[i] : i \in DOMAIN names} |->
                      LET i == CHOOSE j \in DOMAIN names : names[j] = t
                      IN  text[i][2]]]
    ELSE [raised |-> "AttributeError", move |-> None]

----------------------------------------------------------------------------
(* master.py: the Legality Checker *)

\* LudoGameMaster._check_token_moved
check_token_moved(toks, move) ==
    [t \in DOMAIN move |-> toks[t].position # move[t]]

\* LudoGameMaster._get_moved_token: the first moved token in dict order
get_moved_token(toks, move) ==
    LET moved == check_token_moved(toks, move)
        ks == SelectSeq(Keys(moved), LAMBDA t : moved[t])
    IN  IF ks = <<>> THEN None ELSE ks[1]

\* LudoGameMaster._check_both_tokens_moved, with a missing case 2
no_simultaneous_check(toks, n, move) == FALSE

\* LudoGameMaster._check_both_tokens_moved
check_both_tokens_moved(toks, n, move) ==
    IF n = 1 THEN FALSE
    ELSE \A t \in DOMAIN move : check_token_moved(toks, move)[t]

\* LudoGameMaster._is_taken finding every field free
nothing_taken(toks, pos, n_fields) == FALSE

\* LudoGameMaster._is_taken, without the exemption of the finish field
is_taken_also_finish(toks, pos, n_fields) ==
    \E t \in DOMAIN toks : toks[t].position = pos

\* LudoGameMaster._is_taken
is_taken(toks, pos, n_fields) ==
    \E t \in DOMAIN toks : toks[t].position = pos /\ pos # n_fields

\* one pass of the for loop of _check_move that lets a home token enter on
\* any roll
check_one_enter_on_any_roll(toks, move, roll, n_fields, moved_token, token) ==
    LET current_position == toks[token].position
    IN  IF moved_token = None
        THEN IF ~toks[token].in_play
             THEN IF roll # 6 THEN OK
                  ELSE <<"not_moved_to_board", token>>
             ELSE IF roll + current_position > n_fields THEN OK
                  ELSE <<"not_moved", token>>
        ELSE IF token # moved_token THEN OK
        ELSE IF ~toks[token].in_play
             THEN IF move[token] = 1 /\ ~is_taken(toks, 1, n_fields)
                  THEN OK
                  ELSE <<"incorrect_move", token>>
             ELSE IF /\ current_position + roll = move[token]
                     /\ ~is_taken(toks, move[token], n_fields)
                  THEN OK
                  ELSE <<"incorrect_move", token>>

\* one pass of the for loop of _check_move that lets a token rest when its
\* advance would reach n_fields exactly
check_one_rest_before_finish(toks, move, roll, n_fields, moved_token, token) ==
    LET current_position == toks[token].position
    IN  IF moved_token = None
        THEN IF ~toks[token].in_play
             THEN IF roll # 6 THEN OK
                  ELSE <<"not_moved_to_board", token>>
             ELSE IF roll + current_position >= n_fields THEN OK
                  ELSE <<"not_moved", token>>
        ELSE IF token # moved_token THEN OK
        ELSE IF ~toks[token].in_play
             THEN IF roll = 6 /\ move[token] = 1 /\ ~is_taken(toks, 1, n_fields)
                  THEN OK
                  ELSE <<"incorrect_move", token>>
             ELSE IF /\ current_position + roll = move[token]
                     /\ ~is_taken(toks, move[token], n_fields)
                  THEN OK
                  ELSE <<"incorrect_move", token>>

\* one pass of the for loop of _check_move that also holds a token left
\* behind against a reply that moves the other token
check_one_also_left_behind(toks, move, roll, n_fields, moved_token, token) ==
    LET current_position == toks[token].position
    IN  IF moved_token = None \/ token # moved_token
        THEN IF ~toks[token].in_play
             THEN IF roll # 6 THEN OK
                  ELSE <<"not_moved_to_board", token>>
             ELSE IF roll + current_position > n_fields THEN OK
                  ELSE <<"not_moved", token>>
        ELSE IF ~toks[token].in_play
             THEN IF roll = 6 /\ move[token] = 1 /\ ~is_taken(toks, 1, n_fields)
                  THEN OK
                  ELSE <<"incorrect_move", token>>
             ELSE IF /\ current_position + roll = move[token]
                     /\ ~is_taken(toks, move[token], n_fields)
                  THEN OK
                  ELSE <<"incorrect_move", token>>

\* one pass of the for loop of _check_move over move.keys(): OK (True was
\* appended to check_list) or the error the pass returns False with
check_one(toks, move, roll, n_fields, moved_token, token) ==
    LET current_position == toks[token].position
    IN  IF moved_token = None
        THEN IF ~toks[token].in_play
             THEN IF roll # 6 THEN OK
                  ELSE <<"not_moved_to_board", token>>
             ELSE IF roll + current_position > n_fields THEN OK
                  ELSE <<"not_moved", token>>
        ELSE IF ~toks[token].in_play
             THEN IF /\ token = moved_token
                     /\ roll = 6
                     /\ move[token] = 1
                     /\ ~is_taken(toks, 1, n_fields)
                  THEN OK
                  ELSE IF token # moved_token THEN OK
                  ELSE <<"incorrect_move", token>>
             ELSE IF /\ token = moved_token
                     /\ current_position + roll = move[token]
                     /\ ~is_taken(toks, move[token], n_fields)
                  THEN OK
                  ELSE IF token # moved_token THEN OK
                  ELSE <<"incorrect_move", token>>

\* _check_move counting a simultaneous move in game.error_count as well
check_move_counting_simultaneous(toks, n, move, roll, n_fields) ==
    IF check_both_tokens_moved(toks, n, move)
    THEN [ok |-> FALSE, error |-> <<"simultaneous_move", None>>, errors |-> 1]
    ELSE LET moved_token == get_moved_token(toks, move)
             ks == Keys(move)
             res == [i \in DOMAIN ks |->
                       check_one(toks, move, roll, n_fields, moved_token, ks[i])]
             bad == {i \in DOMAIN ks : res[i] # OK}
         IN  IF bad = {}
             THEN [ok |-> TRUE, error |-> NoError, errors |-> 0]
             ELSE LET first == CHOOSE i \in bad : \A j \in bad : i <= j
                  IN  [ok |-> FALSE, error |-> res[first], errors |-> 1]

\* LudoGameMaster._check_move: [ok, error, errors], error being the value
\* left in self.error and errors the increment of game.error_count
check_move(toks, n, move, roll, n_fields) ==
    IF check_both_tokens_moved(toks, n, move)
    THEN [ok |-> FALSE, error |-> <<"simultaneous_move", None>>, errors |-> 0]
    ELSE LET moved_token == get_moved_token(toks, move)
             ks == Keys(move)
             res == [i \in DOMAIN ks |->
                       check_one(toks, move, roll, n_fields, moved_token, ks[i])]
             bad == {i \in DOMAIN ks : res[i] # OK}
         IN  IF bad = {}
             THEN [ok |-> TRUE, error |-> NoError, errors |-> 0]
             ELSE LET first == CHOOSE i \in bad : \A j \in bad : i <= j
                  IN  [ok |-> FALSE, error |-> res[first], errors |-> 1]

----------------------------------------------------------------------------
(* game.py and master.py: the Turn Engine *)

\* Game._reset_board
reset_board(n_fields) == [i \in 1..n_fields |-> EMPTY]

\* Game.update_board: the new snapshot, or IndexError when a token in play is
\* written at split_board[move[token] - 1] beyond the last field
update_board(player_tokens, move, n_fields) ==
    LET ks == Keys(move)
        shown == {i \in DOMAIN ks : player_tokens[ks[i]].in_play}
    IN  IF \E i \in shown : move[ks[i]] - 1 >= n_fields
        THEN [raised |-> "IndexError", board |-> None]
        ELSE [raised |-> None,
              board |-> [f \in 1..n_fields |->
                  LET on == {i \in shown : move[ks[i]] = f}
                  IN  IF on = {} THEN EMPTY
                      ELSE ks[CHOOSE i \in on : \A j \in on : j <= i]]]

\* _update_player_dict marking every token of the move as in play
update_player_dict_all_in_play(player_tokens, move) ==
    [t \in DOMAIN player_tokens |->
        IF t \in DOMAIN move
        THEN [in_play |-> TRUE, position |-> move[t]]
        ELSE player_tokens[t]]

\* LudoGameMaster._update_player_dict
update_player_dict(player_tokens, move) ==
    [t \in DOMAIN player_tokens |->
        IF t \in DOMAIN move
        THEN [in_play |-> move[t] > 0, position |-> move[t]]
        ELSE player_tokens[t]]

\* LudoGameMaster._is_done
is_done(all_tokens, n_fields) ==
    \E p \in DOMAIN all_tokens :
        \A t \in DOMAIN all_tokens[p] : all_tokens[p][t].position = n_fields

\* LudoGameMaster._is_won, true when any side has finished
is_won_by_any_side(all_tokens, n_fields) ==
    \E p \in DOMAIN all_tokens :
        \A t \in DOMAIN all_tokens[p] : all_tokens[p][t].position = n_fields

\* LudoGameMaster._is_won
is_won(all_tokens, n_fields) ==
    \A t \in DOMAIN all_tokens["Player 1"] :
        all_tokens["Player 1"][t].position = n_fields

\* LudoGameMaster._check_game_status, the finished sides looked at before the
\* turn limit
check_game_status_done_first(aborted, t, turn_limit, all_tokens, n_fields) ==
    IF aborted THEN "ABORTED"
    ELSE IF is_done(all_tokens, n_fields)
         THEN IF is_won(all_tokens, n_fields) THEN "WIN" ELSE "LOSE"
    ELSE IF t = turn_limit THEN "DRAW"
    ELSE False

\* LudoGameMaster._check_game_status
check_game_status(aborted, t, turn_limit, all_tokens, n_fields) ==
    IF aborted THEN "ABORTED"
    ELSE IF t = turn_limit THEN "DRAW"
    ELSE IF is_done(all_tokens, n_fields)
         THEN IF is_won(all_tokens, n_fields) THEN "WIN" ELSE "LOSE"
    ELSE False

\* Game.turn_limit
turn_limit == Len(rolls)

\* the status of the episode as _check_game_status computes it now
status == check_game_status(is_aborted, turn, turn_limit, tokens, NFields)

\* the guard of play()'s while loop, with the finished check left out
loop_guard_without_done == ~is_aborted /\ turn # turn_limit

\* the guard of play()'s while loop: not self._check_game_status()
loop_guard == status = False

\* an attempt limit of one reply less with reprompting
attempt_limit_one_less == IF reprompting THEN REPROMPT_LIMIT - 1 ELSE 1

\* LudoGameMaster.attempt_limit
attempt_limit == IF reprompting THEN REPROMPT_LIMIT ELSE 1

\* the side the for loop of play() stands at
player == Players[index + 1]

\* the roll play() hands to the side
roll ==
    IF n_sides > 1 THEN rolls[turn + 1][index + 1] ELSE rolls[turn + 1]

\* the token names of side p: Player 1 wraps a Model, Player 2 a
\* CustomResponseModel
NamesOf(p) ==
    TokenNames(IF p = "Player 1" THEN "Model" ELSE "CustomResponseModel",
               n_tokens)

\* the reply texts a language model may produce for the side's tokens
ReplyTexts(names) ==
    LET n == Len(names)
        T == 0..(NFields + ExtraTarget)
        formed == {[i \in 1..n |-> <<names[i], f[i]>>] : f \in [1..n -> T]}
    IN  formed \cup
        {<<>>, <<<<names[1], -1>>>>, <<<<names[n], 0>>>>,
         [i \in 1..n |-> <<names[n + 1 - i], 1>>]}

\* the dice sequences of an episode with k sides; with two sides
\* LudoInstanceGenerator._get_rolls zips Player 1's sequence with a second
\* one, here one that repeats a face
RollSeqs(k) ==
    IF k = 1 THEN [1..TurnLimit -> Faces]
    ELSE {[i \in 1..TurnLimit |-> <<p1_rolls[i], p2_roll>>] :
             p1_rolls \in [1..TurnLimit -> Faces], p2_roll \in Faces}

NoCall == [op |-> None]

\* Game.__init__ and LudoGameMaster.__init__/setup
Init ==
    /\ n_tokens \in {1, 2}
    /\ n_sides \in {1, 2}
    /\ reprompting \in BOOLEAN
    /\ rolls \in RollSeqs(n_sides)
    /\ tokens = [p \in {Players[i] : i \in 1..n_sides} |->
                    create_token_dictionary(NamesOf(p))]
    /\ current_state = reset_board(NFields)
    /\ turn = 0
    /\ index = 0
    /\ is_aborted = FALSE
    /\ reprompt_attempts = 0
    /\ total_retry_count = 0
    /\ error_count = 0
    /\ error = NoError
    /\ pc = "loop"
    /\ exc = None
    /\ game_result = None
    /\ failed = 0
    /\ asked = 0
    /\ last = None
    /\ chk = NoCall
    /\ dp = NoCall

config_vars == <<n_tokens, n_sides, reprompting, rolls>>

\* play(): the while guard holds, the for loop starts with the first side
\* and _does_game_proceed enters its loop (reprompt_attempts < attempt_limit)
EnterRound ==
    /\ pc = "loop"
    /\ loop_guard
    /\ reprompt_attempts < attempt_limit
    /\ pc' = "prompt"
    /\ index' = 0
    /\ failed' = 0
    /\ UNCHANGED <<config_vars, tokens, current_state, turn, is_aborted,
                   reprompt_attempts, total_retry_count, error_count, error,
                   exc, game_result, asked, last, chk, dp>>

\* play(): the while guard fails, the loop is left
LeaveLoop ==
    /\ pc = "loop"
    /\ ~loop_guard
    /\ pc' = "done"
    /\ UNCHANGED <<config_vars, tokens, current_state, turn, index,
                   is_aborted, reprompt_attempts, total_retry_count,
                   error_count, error, exc, game_result, failed, asked, last,
                   chk, dp>>

\* play() after the loop: the status is logged as game_result
LogResult ==
    /\ pc = "done"
    /\ game_result' = status
    /\ pc' = "end"
    /\ UNCHANGED <<config_vars, tokens, current_state, turn, index,
                   is_aborted, reprompt_attempts, total_retry_count,
                   error_count, error, exc, failed, asked, last, chk, dp>>

\* _get_response: parse_text raises on a reply that does not match
ReplyUnparsed ==
    /\ pc = "prompt"
    /\ player = "Player 1"
    /\ \E text \in ReplyTexts(NamesOf(player)) :
          LET parsed == parse_text(text, NamesOf(player))
          IN  /\ parsed.raised # None
              /\ exc' = parsed.raised
    /\ pc' = "raised"
    /\ failed' = failed + 1
    /\ asked' = asked + 1
    /\ last' = "unparsed"
    /\ UNCHANGED <<config_vars, tokens, current_state, turn, index,
                   is_aborted, reprompt_attempts, total_retry_count,
                   error_count, error, game_result, chk, dp>>

\* _does_game_proceed: the move is valid; the player dict and the board are
\* updated, the attempts reset, and play() goes on to the next side or, after
\* the last side, to the next turn
ReplyAccepted ==
    /\ pc = "prompt"
    /\ player = "Player 1"
    /\ \E text \in ReplyTexts(NamesOf(player)) :
          LET parsed == parse_text(text, NamesOf(player))
              checked == check_move(tokens[player], n_tokens, parsed.move,
                                    roll, NFields)
              updated == update_player_dict(tokens[player], parsed.move)
              board == update_board(updated, parsed.move, NFields)
          IN  /\ parsed.raised = None
              /\ checked.ok
              /\ board.raised = None
              /\ tokens' = [tokens EXCEPT ![player] = updated]
              /\ current_state' = board.board
    /\ reprompt_attempts' = 0
    /\ asked' = asked + 1
    /\ failed' = 0
    /\ last' = "accepted"
    /\ IF index + 1 < n_sides
       THEN /\ reprompt_attempts' < attempt_limit
            /\ index' = index + 1
            /\ pc' = "prompt"
            /\ turn' = turn
       ELSE /\ index' = index
            /\ pc' = "loop"
            /\ turn' = turn + 1
    /\ UNCHANGED <<config_vars, is_aborted, total_retry_count, error_count,
                   error, exc, game_result, chk, dp>>

\* _does_game_proceed: the move is valid and the player dict is updated, but
\* update_board raises
ReplyOffBoard ==
    /\ pc = "prompt"
    /\ player = "Player 1"
    /\ \E text \in ReplyTexts(NamesOf(player)) :
          LET parsed == parse_text(text, NamesOf(player))
              checked == check_move(tokens[player], n_tokens, parsed.move,
                                    roll, NFields)
              updated == update_player_dict(tokens[player], parsed.move)
              board == update_board(updated, parsed.move, NFields)
          IN  /\ parsed.raised = None
              /\ checked.ok
              /\ board.raised # None
              /\ tokens' = [tokens EXCEPT ![player] = updated]
              /\ exc' = board.raised
    /\ pc' = "raised"
    /\ asked' = asked + 1
    /\ last' = "accepted"
    /\ UNCHANGED <<config_vars, current_state, turn, index, is_aborted,
                   reprompt_attempts, total_retry_count, error_count, error,
                   game_result, failed, chk, dp>>

\* _does_game_proceed: the move is not valid. With reprompting the side is
\* reprompted (Game.reprompt, _reprompt_player) and asked again while
\* reprompt_attempts < attempt_limit; otherwise, and without reprompting,
\* False is returned and play() sets is_aborted and leaves both loops
ReplyRejected ==
    /\ pc = "prompt"
    /\ player = "Player 1"
    /\ \E text \in ReplyTexts(NamesOf(player)) :
          LET parsed == parse_text(text, NamesOf(player))
              checked == check_move(tokens[player], n_tokens, parsed.move,
                                    roll, NFields)
          IN  /\ parsed.raised = None
              /\ ~checked.ok
              /\ error_count' = error_count + checked.errors
              /\ error' = IF reprompting THEN NoError ELSE checked.error
    /\ asked' = asked + 1
    /\ failed' = failed + 1
    /\ last' = "rejected"
    /\ IF reprompting
       THEN /\ reprompt_attempts' = reprompt_attempts + 1
            /\ total_retry_count' = total_retry_count + 1
       ELSE UNCHANGED <<reprompt_attempts, total_retry_count>>
    /\ IF reprompting /\ reprompt_attempts' < attempt_limit
       THEN UNCHANGED <<pc, is_aborted>>
       ELSE /\ is_aborted' = TRUE
            /\ pc' = "done"
    /\ UNCHANGED <<config_vars, tokens, current_state, turn, index, exc,
                   game_result, chk, dp>>

\* _get_response for Player 2: ProgrammaticPlayer._make_move builds
\* GameSim(n_fields, token_positions, rolls, turn_number) without n_tokens,
\* so the required argument turn is missing and TypeError is raised
RespondProgrammatic ==
    /\ pc = "prompt"
    /\ player = "Player 2"
    /\ pc' = "raised"
    /\ exc' = "TypeError"
    /\ asked' = asked + 1
    /\ UNCHANGED <<config_vars, tokens, current_state, turn, index,
                   is_aborted, reprompt_attempts, total_retry_count,
                   error_count, error, game_result, failed, last, chk, dp>>

Next ==
    \/ EnterRound
    \/ LeaveLoop
    \/ LogResult
    \/ ReplyUnparsed
    \/ ReplyAccepted
    \/ ReplyOffBoard
    \/ ReplyRejected
    \/ RespondProgrammatic

Spec == Init /\ [][Next]_vars

----------------------------------------------------------------------------
(* Claims about the Turn Engine, checked under Spec *)

Terminal == {"ABORTED", "WIN", "LOSE", "DRAW"}

PositionsOf(all_tokens) ==
    [p \in DOMAIN all_tokens |->
        [t \in DOMAIN all_tokens[p] |-> all_tokens[p][t].position]]

\* C1: with reprompting, once a side has given attempt_limit failed replies
\* (replies without a match or rejected moves) in one turn the episode is
\* ABORTED and the loop is left, and in an aborted episode no further reply
\* is requested and no further round is played.
C1_AbortAfterLimit ==
    [][/\ (reprompting /\ failed' = REPROMPT_LIMIT)
            => (is_aborted' /\ pc' \in {"done", "end"}
                /\ check_game_status(is_aborted', turn', turn_limit, tokens',
                                     NFields) = "ABORTED")
       /\ is_aborted => (asked' = asked /\ turn' = turn)]_vars

\* C2: play() stops only with a terminal status and after at most len(rolls)
\* completed rounds: it is never left by an exception, and the status logged
\* after the loop is WIN, LOSE, DRAW or ABORTED.
C2_ReachesTerminal ==
    /\ pc # "raised"
    /\ turn <= turn_limit
    /\ pc \in {"done", "end"} => status \in Terminal
    /\ pc = "end" => game_result \in Terminal

\* C3: terminal statuses are absorbing. When _check_game_status yields a
\* terminal status at the head of the loop, or the loop was left, no reply is
\* requested any more, no token position, turn index or abort flag changes,
\* and the status stays what it is; the status logged is that status.
C3_TerminalAbsorbing ==
    [][/\ (pc = "loop" /\ status # False) \/ pc \in {"done", "end"}
            => /\ pc' \in {"done", "end"}
               /\ status \in Terminal
               /\ asked' = asked
               /\ PositionsOf(tokens') = PositionsOf(tokens)
               /\ turn' = turn
               /\ is_aborted' = is_aborted
               /\ check_game_status(is_aborted', turn', turn_limit, tokens',
                                    NFields) = status
       /\ pc' = "end" => game_result' = status]_vars

\* C3 witness: a won episode whose status was logged after the loop
C3_Witness ==
    pc = "end" /\ game_result = "WIN" /\ asked > 0

\* C7: every token position lies in 0..n_fields.
C7_PositionsOnBoard ==
    \A p \in DOMAIN tokens : \A t \in DOMAIN tokens[p] :
        tokens[p][t].position \in 0..NFields

\* C8: a reply that does not match the move pattern is a failed attempt like
\* any other: the side is asked again or the episode is ABORTED; play() is
\* not left by an exception.
C8_ParseFailureIsValue ==
    last = "unparsed"
        => /\ exc = None
           /\ \/ pc = "prompt"
              \/ pc \in {"done", "end"} /\ status = "ABORTED"

----------------------------------------------------------------------------
(* SpecChk: _check_move applied to one input *)

\* the engine's variables while a function is checked on its own
EngineIdle ==
    /\ n_tokens = 2
    /\ n_sides = 1
    /\ reprompting = FALSE
    /\ rolls = <<>>
    /\ tokens = [p \in {"Player 1"} |->
                    create_token_dictionary(TokenNames("Model", 2))]
    /\ current_state = <<>>
    /\ turn = 0
    /\ index = 0
    /\ is_aborted = FALSE
    /\ reprompt_attempts = 0
    /\ total_retry_count = 0
    /\ error_count = 0
    /\ error = NoError
    /\ pc = "idle"
    /\ exc = None
    /\ game_result = None
    /\ failed = 0
    /\ asked = 0
    /\ last = None

\* the token dictionaries of a side with n tokens on a board of n_fields
\* fields: in_play = (position > 0), and no field in 1..n_fields-1 holds two
\* tokens
TokenDicts(names, n_fields) ==
    LET ts == {names[i] : i \in DOMAIN names}
    IN  {[t \in ts |-> [in_play |-> pos[t] > 0, position |-> pos[t]]] :
            pos \in {q \in [ts -> 0..n_fields] :
                        \A a, b \in ts :
                            (a # b /\ q[a] = q[b]) => q[a] \in {0, n_fields}}}

InitChk ==
    /\ EngineIdle
    /\ dp = NoCall
    /\ \E n \in {1, 2} :
          LET names == TokenNames("Model", n)
              ts == {names[i] : i \in DOMAIN names}
          IN  chk \in {[op |-> "input", n |-> n, toks |-> toks, move |-> move,
                        roll |-> r, n_fields |-> ChkFields] :
                          toks \in TokenDicts(names, ChkFields),
                          move \in [ts -> 0..(ChkFields + ExtraTarget)],
                          r \in 1..DieFaces}

\* the call _check_move(tokens, n_tokens, move, roll, n_fields): the verdict
\* is returned, a rejection stores its reason in self.error and, unless it
\* is a simultaneous move, adds one to game.error_count
CallCheckMove ==
    /\ chk.op = "input"
    /\ LET checked == check_move(chk.toks, chk.n, chk.move, chk.roll,
                                 chk.n_fields)
       IN  /\ chk' = [op |-> "checked", n |-> chk.n, toks |-> chk.toks,
                      move |-> chk.move, roll |-> chk.roll,
                      n_fields |-> chk.n_fields, out |-> checked]
           /\ error' = IF checked.ok THEN error ELSE checked.error
           /\ error_count' = error_count + checked.errors
    /\ UNCHANGED <<config_vars, tokens, current_state, turn, index,
                   is_aborted, reprompt_attempts, total_retry_count, pc, exc,
                   game_result, failed, asked, last, dp>>

NextChk == CallCheckMove

SpecChk == InitChk /\ [][NextChk]_vars

\* the tokens of the checked input whose position the reply changes
Changed == {t \in DOMAIN chk.move : chk.toks[t].position # chk.move[t]}

\* the other tokens of the side
Others(t) == DOMAIN chk.toks \ {t}

\* token t may advance by the roll: in play, not beyond the finish field, and
\* the destination is the finish field or not held by the side's other token
CanAdvance(t) ==
    LET dest == chk.toks[t].position + chk.roll
    IN  /\ chk.toks[t].position > 0
        /\ dest <= chk.n_fields
        /\ \/ dest = chk.n_fields
           \/ \A u \in Others(t) : chk.toks[u].position # dest

\* token t may enter: at home, a 6, and field 1 not held by the other token
CanEnter(t) ==
    /\ chk.toks[t].position = 0
    /\ chk.roll = 6
    /\ \A u \in Others(t) : chk.toks[u].position # 1

\* the reply that moves token t alone, to where the checked reply puts it
MovedAlone(t) ==
    [u \in DOMAIN chk.move |->
        IF u = t THEN chk.move[t] ELSE chk.toks[u].position]

\* C4: with 2 tokens, a reply that changes both positions is rejected with
\* simultaneous_move, whatever the board and the roll.
C4_SimultaneousRejected ==
    (chk.op = "checked" /\ chk.n = 2 /\ Cardinality(Changed) = 2)
        => /\ ~chk.out.ok
           /\ chk.out.error = <<"simultaneous_move", None>>

\* C4 witness: both tokens changed, each change legal on its own
C4_Witness ==
    /\ chk.op = "checked" /\ chk.n = 2 /\ Cardinality(Changed) = 2
    /\ \A t \in Changed :
          /\ CanAdvance(t)
          /\ chk.move[t] = chk.toks[t].position + chk.roll
          /\ check_move(chk.toks, chk.n, MovedAlone(t), chk.roll,
                        chk.n_fields).ok
    /\ chk.out.error[1] = "simultaneous_move"

\* C5: a reply that changes exactly one token, in play, to position + roll
\* within the board, the destination being the finish field or not held by
\* the other token, is accepted.
C5_AdvanceAccepted ==
    (/\ chk.op = "checked"
     /\ \E t \in DOMAIN chk.move :
           /\ Changed = {t}
           /\ chk.toks[t].in_play
           /\ chk.move[t] = chk.toks[t].position + chk.roll
           /\ CanAdvance(t))
        => chk.out.ok

\* C5 witness: a token joins the side's other token on the finish field
C5_Witness ==
    /\ chk.op = "checked" /\ chk.n = 2
    /\ Changed = {"X"}
    /\ CanAdvance("X")
    /\ chk.move["X"] = chk.n_fields
    /\ chk.toks["Y"].position = chk.n_fields
    /\ chk.out.ok

\* C6: a reply that changes no token is rejected whenever some token has a
\* legal move, and the reason names a token that could have moved:
\* not_moved_to_board(t) only when t may enter, not_moved(t) only when t may
\* advance.
C6_UnmovedReasonIsTrue ==
    (chk.op = "checked" /\ Changed = {})
        => /\ (\E t \in DOMAIN chk.toks : CanAdvance(t) \/ CanEnter(t))
                => ~chk.out.ok
           /\ \A t \in DOMAIN chk.toks :
                 /\ chk.out.error = <<"not_moved_to_board", t>> => CanEnter(t)
                 /\ chk.out.error = <<"not_moved", t>> => CanAdvance(t)

----------------------------------------------------------------------------
(* instancegenerator.py: the Sequence Oracle *)

\* next_moves + 1, float('inf') + 1 being float('inf')
Plus1(k) == IF k = Inf THEN Inf ELSE k + 1

\* the updates "if next_moves + 1 < min_move_count" over the branches taken,
\* in the order of the code: the first branch with the least count, and
\* (inf, []) when no branch yields a finite count
KeepMinimum(branches) ==
    LET finite == {i \in DOMAIN branches : Plus1(branches[i].next.n) < Inf}
    IN  IF finite = {} THEN [n |-> Inf, seq |-> <<>>]
        ELSE LET best == CHOOSE i \in finite :
                     \A j \in finite :
                         \/ branches[i].next.n < branches[j].next.n
                         \/ branches[i].next.n = branches[j].next.n /\ i <= j
             IN  [n |-> branches[best].next.n + 1,
                  seq |-> <<branches[best].token, branches[best].to>>
                              \o branches[best].next.seq]

\* new_X without the bound: the token runs off the board
NewPositionRunsOff(X, r, n_fields) == X + r

\* new_X: X + roll if X + roll <= n_fields else X
NewPosition(X, r, n_fields) == IF X + r <= n_fields THEN X + r ELSE X

\* the child states find_multitoken_minimum recurses into from (X, Y) with
\* roll r, in the order of the code, each with the move it records
Children(n_fields, r, X, Y) ==
    LET new_X == NewPosition(X, r, n_fields)
        new_Y == NewPosition(Y, r, n_fields)
    IN  (IF X # 0 /\ (new_X # Y \/ new_X = n_fields)
         THEN <<[token |-> "X", to |-> new_X, X |-> new_X, Y |-> Y]>>
         ELSE <<>>)
        \o (IF Y # 0 /\ (new_Y # X \/ new_Y = n_fields)
            THEN <<[token |-> "Y", to |-> new_Y, X |-> X, Y |-> new_Y]>>
            ELSE <<>>)
        \o (IF r = 6 /\ X = 0 /\ Y # 1
            THEN <<[token |-> "X", to |-> 1, X |-> 1, Y |-> Y]>>
            ELSE <<>>)
        \o (IF r = 6 /\ Y = 0 /\ 1 # X
            THEN <<[token |-> "Y", to |-> 1, X |-> X, Y |-> 1]>>
            ELSE <<>>)

\* find_multitoken_minimum(rolls, n_fields, memorized_moves, X, Y, index):
\* [n, seq] for (min_move_count, best_sequence). memorized_moves caches the
\* value of (X, Y, index) computed by this same recursion for the same rolls
\* and n_fields, so the value with a fresh table is the value without one.
RECURSIVE find_multitoken_minimum(_, _, _, _, _)
find_multitoken_minimum(rs, n_fields, X, Y, idx) ==
    IF X = n_fields /\ Y = n_fields THEN [n |-> 0, seq |-> <<>>]
    ELSE IF idx >= Len(rs) THEN [n |-> Inf, seq |-> <<>>]
    ELSE LET cs == Children(n_fields, rs[idx + 1], X, Y)
         IN  KeepMinimum(
                 [i \in DOMAIN cs |->
                    [token |-> cs[i].token, to |-> cs[i].to,
                     next |-> find_multitoken_minimum(rs, n_fields, cs[i].X,
                                                      cs[i].Y, idx + 1)]])

\* find_monotoken_minimum(rolls, n_fields, memorized_moves, X, index): it
\* follows an advance only when new_X == n_fields, and both of its branches
\* recurse into find_multitoken_minimum, whose Y defaults to 0
find_monotoken_minimum(rs, n_fields, X, idx) ==
    IF X = n_fields THEN [n |-> 0, seq |-> <<>>]
    ELSE IF idx >= Len(rs) THEN [n |-> Inf, seq |-> <<>>]
    ELSE LET r == rs[idx + 1]
             new_X == NewPosition(X, r, n_fields)
             cs == (IF X # 0 /\ new_X = n_fields
                    THEN <<[token |-> "X", to |-> new_X]>> ELSE <<>>)
                   \o (IF r = 6 /\ X = 0
                       THEN <<[token |-> "X", to |-> 1]>> ELSE <<>>)
         IN  KeepMinimum(
                 [i \in DOMAIN cs |->
                    [token |-> cs[i].token, to |-> cs[i].to,
                     next |-> find_multitoken_minimum(rs, n_fields, cs[i].to,
                                                      0, idx + 1)]])

----------------------------------------------------------------------------
(* SpecDP: one solver call *)

\* the positions of the two tokens of a side on a board of n_fields fields
PositionPairs(n_fields) ==
    {q \in (0..n_fields) \X (0..n_fields) :
        q[1] = q[2] => q[1] \in {0, n_fields}}

InitDP ==
    /\ EngineIdle
    /\ chk = NoCall
    /\ dp \in {[op |-> "input", rolls |-> rs, n_fields |-> DPFields,
                X |-> q[1], Y |-> q[2], index |-> i] :
                  rs \in [1..MaxRolls -> 1..DieFaces],
                  q \in PositionPairs(DPFields),
                  i \in 0..MaxRolls}

\* the call find_multitoken_minimum(rolls, n_fields, dict(), X, Y, index)
CallMultitoken ==
    /\ dp.op = "input"
    /\ dp' = [op |-> "multitoken", rolls |-> dp.rolls,
              n_fields |-> dp.n_fields, X |-> dp.X, Y |-> dp.Y,
              index |-> dp.index,
              out |-> find_multitoken_minimum(dp.rolls, dp.n_fields, dp.X,
                                              dp.Y, dp.index)]
    /\ UNCHANGED <<engine_vars, chk>>

\* the call find_monotoken_minimum(rolls, n_fields, dict(), X, index)
CallMonotoken ==
    /\ dp.op = "input"
    /\ dp.Y = 0
    /\ dp' = [op |-> "monotoken", rolls |-> dp.rolls,
              n_fields |-> dp.n_fields, X |-> dp.X, Y |-> dp.Y,
              index |-> dp.index,
              out |-> find_monotoken_minimum(dp.rolls, dp.n_fields, dp.X,
                                             dp.index)]
    /\ UNCHANGED <<engine_vars, chk>>

NextDP == CallMultitoken \/ CallMonotoken

SpecDP == InitDP /\ [][NextDP]_vars

----------------------------------------------------------------------------
(* Claims about the Sequence Oracle, checked under SpecDP *)

\* the least element of a set of counts, infinity for the empty set
MinOver(S) == IF S = {} THEN Inf ELSE CHOOSE k \in S : \A j \in S : k <= j

\* the legal transitions of (X, Y) under roll r: an in-play token advances by
\* r without passing n_fields and without landing on the other token unless
\* on n_fields; a home token enters on field 1 when r = 6 and field 1 is free
LegalTransitions(n_fields, r, X, Y) ==
    {<<X + r, Y>> : k \in {1} \cap
        {IF X > 0 /\ X + r <= n_fields /\ (X + r # Y \/ X + r = n_fields)
         THEN 1 ELSE 0}}
    \cup {<<X, Y + r>> : k \in {1} \cap
        {IF Y > 0 /\ Y + r <= n_fields /\ (Y + r # X \/ Y + r = n_fields)
         THEN 1 ELSE 0}}
    \cup {<<1, Y>> : k \in {1} \cap
        {IF X = 0 /\ r = 6 /\ Y # 1 THEN 1 ELSE 0}}
    \cup {<<X, 1>> : k \in {1} \cap
        {IF Y = 0 /\ r = 6 /\ X # 1 THEN 1 ELSE 0}}

\* the turn is passed: a token that is not at home, whose advance would pass
\* n_fields and that does not share a field below n_fields with the other
\* token, stays where it is
StayTransitions(n_fields, r, X, Y) ==
    {<<X, Y>> : k \in {1} \cap
        {IF \/ X > 0 /\ X + r > n_fields /\ (X # Y \/ X = n_fields)
            \/ Y > 0 /\ Y + r > n_fields /\ (Y # X \/ Y = n_fields)
         THEN 1 ELSE 0}}

\* 0 when both tokens are on n_fields, infinity when the rolls have run out,
\* else 1 + the least value the two-token solver returns for a child state
Recurrence(rs, n_fields, X, Y, idx, children) ==
    IF X = n_fields /\ Y = n_fields THEN 0
    ELSE IF idx >= Len(rs) THEN Inf
    ELSE Plus1(MinOver({find_multitoken_minimum(rs, n_fields, c[1], c[2],
                                                idx + 1).n : c \in children}))

RECURSIVE SingleTokenMinimum(_, _, _, _)
SingleTokenMinimum(rs, n_fields, X, idx) ==
    IF X = n_fields THEN 0
    ELSE IF idx >= Len(rs) THEN Inf
    ELSE LET r == rs[idx + 1]
         IN  Plus1(MinOver(
                 {SingleTokenMinimum(rs, n_fields, X + r, idx + 1) :
                     k \in {1} \cap
                         {IF X > 0 /\ X + r <= n_fields THEN 1 ELSE 0}}
                 \cup {SingleTokenMinimum(rs, n_fields, 1, idx + 1) :
                     k \in {1} \cap {IF X = 0 /\ r = 6 THEN 1 ELSE 0}}))

\* C10: find_monotoken_minimum returns the least number of moves of a single
\* token, so a finite count of at most the number of rolls whenever the rolls
\* suffice to reach n_fields.
C10_MonotokenMinimum ==
    dp.op = "monotoken"
        => LET least == SingleTokenMinimum(dp.rolls, dp.n_fields, dp.X,
                                           dp.index)
           IN  /\ dp.out.n = least
               /\ least # Inf => dp.out.n <= Len(dp.rolls)

----------------------------------------------------------------------------
(* SpecWin: a generated dice sequence played by one side *)

\* n_fields of the generated instances
WinFields == 2
\* n_rolls of the generated instances
WinRolls == 4

\* LudoInstanceGenerator._check_sequence: -1 for an unsolvable sequence, else
\* what the solver for n_tokens returns
check_sequence(n_fields, n, rs) ==
    LET min_moves == IF n = 1
                     THEN find_monotoken_minimum(rs, n_fields, 0, 0)
                     ELSE find_multitoken_minimum(rs, n_fields, 0, 0, 0)
    IN  IF min_moves.n = Inf THEN [solvable |-> FALSE, min_moves |-> -1]
        ELSE [solvable |-> TRUE, min_moves |-> min_moves.n]

\* the replies of a side that name a target for each of its tokens
MovesOf(names, n_fields) ==
    [{names[i] : i \in DOMAIN names} -> 0..(n_fields + ExtraTarget)]

\* play() with Player 1 alone, from the head of the while loop with the
\* tokens toks at turn t: some sequence of replies, each accepted by
\* _check_move and applied by _does_game_proceed, ends with the status WIN
RECURSIVE CanWin(_, _, _, _, _)
CanWin(toks, t, rs, n, n_fields) ==
    LET now == check_game_status(FALSE, t, Len(rs),
                                 [p \in {"Player 1"} |-> toks], n_fields)
    IN  IF now # False THEN now = "WIN"
        ELSE \E move \in MovesOf(TokenNames("Model", n), n_fields) :
                LET updated == update_player_dict(toks, move)
                IN  /\ check_move(toks, n, move, rs[t + 1], n_fields).ok
                    /\ update_board(updated, move, n_fields).raised = None
                    /\ CanWin(updated, t + 1, rs, n, n_fields)

InitWin ==
    /\ EngineIdle
    /\ chk = NoCall
    /\ dp \in {[op |-> "rolls", n_tokens |-> n, n_fields |-> WinFields,
                rolls |-> rs] :
                  n \in {1, 2}, rs \in [1..WinRolls -> 1..DieFaces]}

\* one pass of the loop of _generate_valid_rolls: the rolls are checked
CheckSequence ==
    /\ dp.op = "rolls"
    /\ dp' = [op |-> "checked", n_tokens |-> dp.n_tokens,
              n_fields |-> dp.n_fields, rolls |-> dp.rolls,
              out |-> check_sequence(dp.n_fields, dp.n_tokens, dp.rolls)]
    /\ UNCHANGED <<engine_vars, chk>>

NextWin == CheckSequence

SpecWin == InitWin /\ [][NextWin]_vars

\* C11: a dice sequence that _check_sequence finds solvable can be won: some
\* sequence of accepted replies takes the episode from the all-home state to
\* the status WIN.
C11_SolvableIsWinnable ==
    (dp.op = "checked" /\ dp.out.solvable)
        => CanWin(create_token_dictionary(TokenNames("Model", dp.n_tokens)),
                  0, dp.rolls, dp.n_tokens, dp.n_fields)

----------------------------------------------------------------------------
(* minimax.py: the Adversarial Oracle *)

\* float('-inf')
NegInf == -1000

\* best_move = None
NoMove == <<None, 0>>

\* a GameSim object
GameSim(n_fields, n, token_positions, rs, t) ==
    [n_fields |-> n_fields, n_tokens |-> n,
     token_positions |-> token_positions, rolls |-> rs, turn |-> t]

\* GameSim._get_tokens
get_tokens(gs, p) ==
    IF gs.n_tokens = 1
    THEN (IF p = 1 THEN <<"A">> ELSE <<"X">>)
    ELSE (IF p = 1 THEN <<"A", "B">> ELSE <<"X", "Y">>)

\* GameSim._is_out
is_out(gs, token) == gs.token_positions[token] > 0

\* _is_taken finding every field free
sim_nothing_taken(gs, toks, pos) == FALSE

\* GameSim._is_taken
sim_is_taken(gs, toks, pos) ==
    \E i \in DOMAIN toks :
        gs.token_positions[toks[i]] = pos /\ pos # gs.n_fields

\* get_new_state sending opponent tokens home from the last field as well
get_new_state_capturing_at_finish(gs, move, p) ==
    LET opponent == get_tokens(gs, 1 - p)
        moved == [gs.token_positions EXCEPT ![move[1]] = move[2]]
        new_token_positions ==
            [token \in DOMAIN moved |->
                IF /\ \E i \in DOMAIN opponent : opponent[i] = token
                   /\ moved[token] = move[2]
                THEN 0 ELSE moved[token]]
    IN  GameSim(gs.n_fields, gs.n_tokens, new_token_positions, gs.rolls,
                IF p = 1 THEN gs.turn + 1 ELSE gs.turn)

\* get_new_state advancing the turn after either side's move
get_new_state_turn_each_ply(gs, move, p) ==
    LET opponent == get_tokens(gs, 1 - p)
        moved == [gs.token_positions EXCEPT ![move[1]] = move[2]]
        new_token_positions ==
            [token \in DOMAIN moved |->
                IF /\ \E i \in DOMAIN opponent : opponent[i] = token
                   /\ moved[token] = move[2]
                   /\ move[2] # gs.n_fields
                THEN 0 ELSE moved[token]]
    IN  GameSim(gs.n_fields, gs.n_tokens, new_token_positions, gs.rolls,
                gs.turn + 1)

\* GameSim.get_new_state
get_new_state(gs, move, p) ==
    LET opponent == get_tokens(gs, 1 - p)
        moved == [gs.token_positions EXCEPT ![move[1]] = move[2]]
        new_token_positions ==
            [token \in DOMAIN moved |->
                IF /\ \E i \in DOMAIN opponent : opponent[i] = token
                   /\ moved[token] = move[2]
                   /\ move[2] # gs.n_fields
                THEN 0 ELSE moved[token]]
    IN  GameSim(gs.n_fields, gs.n_tokens, new_token_positions, gs.rolls,
                IF p = 1 THEN gs.turn + 1 ELSE gs.turn)

\* the moves get_possible_moves appends for one token
moves_of_token(gs, toks, r, token) ==
    LET destination == gs.token_positions[token] + r
    IN  (IF /\ ~sim_is_taken(gs, toks, destination)
            /\ destination <= gs.n_fields
            /\ is_out(gs, token)
         THEN <<<<token, destination>>>> ELSE <<>>)
        \o (IF /\ r = 6
               /\ gs.token_positions[token] = 0
               /\ ~sim_is_taken(gs, toks, 1)
            THEN <<<<token, 1>>>> ELSE <<>>)

\* GameSim.get_possible_moves
get_possible_moves(gs, p) ==
    LET r == gs.rolls[gs.turn + 1][p + 1]
        toks == get_tokens(gs, p)
        moves == IF Len(toks) = 1 THEN moves_of_token(gs, toks, r, toks[1])
                 ELSE moves_of_token(gs, toks, r, toks[1])
                      \o moves_of_token(gs, toks, r, toks[2])
    IN  IF moves # <<>> THEN moves
        ELSE [i \in DOMAIN toks |-> <<toks[i], gs.token_positions[toks[i]]>>]

\* GameSim.is_terminal: p2_terminal is computed from _get_tokens(0) as well
is_terminal(gs) ==
    LET p1_terminal == \A i \in DOMAIN get_tokens(gs, 0) :
            gs.token_positions[get_tokens(gs, 0)[i]] = gs.n_fields
        p2_terminal == \A i \in DOMAIN get_tokens(gs, 0) :
            gs.token_positions[get_tokens(gs, 0)[i]] = gs.n_fields
    IN  [terminal |-> p1_terminal \/ p2_terminal,
         winner |-> IF p1_terminal THEN 0
                    ELSE IF p2_terminal THEN 1 ELSE -1]

\* sum of the positions of the tokens toks
RECURSIVE progress_of(_, _)
progress_of(gs, toks) ==
    IF toks = <<>> THEN 0
    ELSE gs.token_positions[Head(toks)] + progress_of(gs, Tail(toks))

\* GameSim.score: "-100 if winner else 100" with winner 0 or 1
score(gs) ==
    IF is_terminal(gs).terminal
    THEN (IF is_terminal(gs).winner # 0 THEN -100 ELSE 100)
    ELSE progress_of(gs, get_tokens(gs, 0)) - progress_of(gs, get_tokens(gs, 1))

\* the cutoff test stopping one turn later
is_cutoff_one_turn_late(gs) ==
    is_terminal(gs).terminal \/ gs.turn > Len(gs.rolls)

\* the test minimax stops on: terminal, or no roll left for this turn
is_cutoff(gs) == is_terminal(gs).terminal \/ gs.turn > Len(gs.rolls) - 1

\* best_score where every move scores below it: nothing is ever chosen
initial_best_score_zero(maximizing_player) == 0

\* best_score before the loop over the moves
initial_best_score(maximizing_player) ==
    IF maximizing_player THEN NegInf ELSE Inf

Max(a, b) == IF a >= b THEN a ELSE b
Min(a, b) == IF a <= b THEN a ELSE b

RECURSIVE minimax(_, _, _, _)
RECURSIVE max_loop(_, _, _, _, _, _, _)
RECURSIVE min_loop(_, _, _, _, _, _, _)

\* minimax, maximizing branch: the for loop from move i on
max_loop(gs, moves, i, best_score, best_move, alpha, beta) ==
    IF i > Len(moves) THEN [score |-> best_score, move |-> best_move]
    ELSE LET child == get_new_state(gs, moves[i], 1)
             s == minimax(child, FALSE, alpha, beta).score
             bs == IF s > best_score THEN s ELSE best_score
             bm == IF s > best_score THEN moves[i] ELSE best_move
         IN  IF bs >= beta THEN [score |-> bs, move |-> bm]
             ELSE max_loop(gs, moves, i + 1, bs, bm, Max(alpha, bs), beta)

\* minimax, minimizing branch: the for loop from move i on; it breaks on
\* best_score <= beta and otherwise sets beta = min(alpha, best_score)
min_loop(gs, moves, i, best_score, best_move, alpha, beta) ==
    IF i > Len(moves) THEN [score |-> best_score, move |-> best_move]
    ELSE LET child == get_new_state(gs, moves[i], 0)
             s == minimax(child, TRUE, alpha, beta).score
             bs == IF s < best_score THEN s ELSE best_score
             bm == IF s < best_score THEN moves[i] ELSE best_move
         IN  IF bs <= beta THEN [score |-> bs, move |-> bm]
             ELSE min_loop(gs, moves, i + 1, bs, bm, alpha, Min(alpha, bs))

\* minimax(game_state, maximizing_player, alpha, beta): [score, move]
minimax(gs, maximizing_player, alpha, beta) ==
    IF is_cutoff(gs) THEN [score |-> score(gs), move |-> NoMove]
    ELSE LET p == IF maximizing_player THEN 1 ELSE 0
             possible_moves == get_possible_moves(gs, p)
         IN  IF maximizing_player
             THEN max_loop(gs, possible_moves, 1,
                           initial_best_score(maximizing_player), NoMove,
                           alpha, beta)
             ELSE min_loop(gs, possible_moves, 1,
                           initial_best_score(maximizing_player), NoMove,
                           alpha, beta)

----------------------------------------------------------------------------
(* SpecMM: GameSim and minimax applied to one state *)

\* n_fields of the simulated games
MMFields == 3
\* len(rolls) of the simulated games
MMRolls == 2

\* the pairs (Player 1's roll, Player 2's roll) the simulated games draw a
\* turn's rolls from
RollPairs == {<<1, 2>>, <<2, 1>>, <<6, 6>>}

\* the token positions of a simulated game with n tokens a side: no two
\* tokens of a side share a field in 1..n_fields-1
SimPositions(n, n_fields) ==
    IF n = 1 THEN [{"X", "A"} -> 0..n_fields]
    ELSE {q \in [{"X", "Y", "A", "B"} -> 0..n_fields] :
             /\ <<q["X"], q["Y"]>> \in PositionPairs(n_fields)
             /\ <<q["A"], q["B"]>> \in PositionPairs(n_fields)}

InitMM ==
    /\ EngineIdle
    /\ chk = NoCall
    /\ \E n \in {1, 2} :
          dp \in {[op |-> "state", maximizing_player |-> b,
                   game_state |-> GameSim(MMFields, n, q, rs, t)] :
                     b \in BOOLEAN, q \in SimPositions(n, MMFields),
                     rs \in [1..MMRolls -> RollPairs], t \in 0..MMRolls}

\* the call minimax(game_state, maximizing_player)
CallMinimax ==
    /\ dp.op = "state"
    /\ dp' = [op |-> "minimax", maximizing_player |-> dp.maximizing_player,
              game_state |-> dp.game_state,
              out |-> minimax(dp.game_state, dp.maximizing_player, NegInf,
                              Inf)]
    /\ UNCHANGED <<engine_vars, chk>>

\* the test at the head of minimax
CallIsTerminal ==
    /\ dp.op = "state"
    /\ dp' = [op |-> "is_terminal",
              maximizing_player |-> dp.maximizing_player,
              game_state |-> dp.game_state,
              out |-> [terminal |-> is_terminal(dp.game_state).terminal,
                       winner |-> is_terminal(dp.game_state).winner,
                       cutoff |-> is_cutoff(dp.game_state)]]
    /\ UNCHANGED <<engine_vars, chk>>

\* the call game_state.score()
CallScore ==
    /\ dp.op = "state"
    /\ dp' = [op |-> "score", maximizing_player |-> dp.maximizing_player,
              game_state |-> dp.game_state, out |-> score(dp.game_state)]
    /\ UNCHANGED <<engine_vars, chk>>

NextMM == CallMinimax \/ CallIsTerminal \/ CallScore

SpecMM == InitMM /\ [][NextMM]_vars

----------------------------------------------------------------------------
(* Claims about the Adversarial Oracle, checked under SpecMM *)

\* the tokens of side p as a set
TokenSet(gs, p) == {get_tokens(gs, p)[i] : i \in DOMAIN get_tokens(gs, p)}

\* side p has all its tokens on n_fields
Finished(gs, p) ==
    \A token \in TokenSet(gs, p) : gs.token_positions[token] = gs.n_fields

\* the value of the same game searched in full: no branch is cut
RECURSIVE FullSearch(_, _)
FullSearch(gs, maximizing_player) ==
    IF is_cutoff(gs) THEN score(gs)
    ELSE LET p == IF maximizing_player THEN 1 ELSE 0
             moves == get_possible_moves(gs, p)
             values == {FullSearch(get_new_state(gs, moves[i], p),
                                   ~maximizing_player) : i \in DOMAIN moves}
         IN  IF maximizing_player
             THEN CHOOSE v \in values : \A w \in values : w <= v
             ELSE CHOOSE v \in values : \A w \in values : v <= w

\* C12: the value minimax returns with alpha-beta pruning is the value of
\* the full search without pruning from the same state.
C12_PruningKeepsValue ==
    dp.op = "minimax"
        => dp.out.score = FullSearch(dp.game_state, dp.maximizing_player)

\* C13: at a state where the search goes on, the move minimax returns is one
\* of get_possible_moves for the side to move; no move is returned exactly at
\* the terminal and cutoff states.
C13_MoveIsPossible ==
    dp.op = "minimax"
        => LET p == IF dp.maximizing_player THEN 1 ELSE 0
               moves == get_possible_moves(dp.game_state, p)
           IN  IF is_cutoff(dp.game_state) THEN dp.out.move = NoMove
               ELSE \E i \in DOMAIN moves : dp.out.move = moves[i]

\* C13 witness: the maximizing side has two moves and the second is returned
C13_Witness ==
    /\ dp.op = "minimax"
    /\ dp.maximizing_player
    /\ ~is_cutoff(dp.game_state)
    /\ Len(get_possible_moves(dp.game_state, 1)) = 2
    /\ dp.out.move = get_possible_moves(dp.game_state, 1)[2]
    /\ dp.out.move # get_possible_moves(dp.game_state, 1)[1]

\* C14: the terminal test of minimax holds exactly when the minimizing side
\* or the maximizing side has all its tokens on n_fields or the turn is past
\* the last roll; the search returns no move once the maximizing side has
\* finished.
C14_TerminalTest ==
    /\ dp.op = "is_terminal"
          => dp.out.cutoff = (\/ Finished(dp.game_state, 0)
                              \/ Finished(dp.game_state, 1)
                              \/ dp.game_state.turn
                                     > Len(dp.game_state.rolls) - 1)
    /\ (dp.op = "minimax" /\ Finished(dp.game_state, 1))
          => dp.out.move = NoMove

\* C15: score is +100 when the maximizing side (A, B) has finished, -100
\* when its opponent (X, Y) has finished, and otherwise the sum of the
\* maximizing side's positions minus the sum of the opponent's.
C15_ScoreOfMaximizer ==
    dp.op = "score"
        => LET gs == dp.game_state
               sum(p) == progress_of(gs, get_tokens(gs, p))
           IN  /\ (Finished(gs, 1) /\ ~Finished(gs, 0)) => dp.out = 100
               /\ (Finished(gs, 0) /\ ~Finished(gs, 1)) => dp.out = -100
               /\ (Finished(gs, 0) /\ Finished(gs, 1))
                     => dp.out \in {100, -100}
               /\ (~Finished(gs, 0) /\ ~Finished(gs, 1))
                     => dp.out = sum(1) - sum(0)

----------------------------------------------------------------------------
(* SpecOracle: a series of oracle calls *)

\* n_fields of the calls
OracleFields == 2
\* len(rolls) of the calls
OracleRolls == 4
\* the number of calls in a series
MaxCalls == 3

\* the table a caller left behind, passed on to the next call
leftover_table(table) == table

\* memorized_moves = {} (scoring.py) and dict() (_check_sequence): every call
\* gets a new table, whatever table an earlier call filled
fresh_table(table) == [key \in {} |-> [n |-> 0, seq |-> <<>>]]

RECURSIVE memoized_multitoken_minimum(_, _, _, _, _, _)
RECURSIVE memoized_branches(_, _, _, _, _, _, _)

\* find_multitoken_minimum from branch i of state (X, Y, idx) on, with the
\* table the earlier branches have filled: [n, seq, memo]
memoized_branches(rs, n_fields, memorized_moves, cs, i, idx, best) ==
    IF i > Len(cs)
    THEN [n |-> best.n, seq |-> best.seq, memo |-> memorized_moves]
    ELSE LET next == memoized_multitoken_minimum(rs, n_fields,
                         memorized_moves, cs[i].X, cs[i].Y, idx + 1)
         IN  memoized_branches(rs, n_fields, next.memo, cs, i + 1, idx,
                 IF Plus1(next.n) < best.n
                 THEN [n |-> next.n + 1,
                       seq |-> <<cs[i].token, cs[i].to>> \o next.seq]
                 ELSE best)

\* find_multitoken_minimum with its table: the value, and the table as the
\* call leaves it
memoized_multitoken_minimum(rs, n_fields, memorized_moves, X, Y, idx) ==
    IF X = n_fields /\ Y = n_fields
    THEN [n |-> 0, seq |-> <<>>, memo |-> memorized_moves]
    ELSE IF idx >= Len(rs)
    THEN [n |-> Inf, seq |-> <<>>, memo |-> memorized_moves]
    ELSE IF <<X, Y, idx>> \in DOMAIN memorized_moves
    THEN [n |-> memorized_moves[<<X, Y, idx>>].n,
          seq |-> memorized_moves[<<X, Y, idx>>].seq,
          memo |-> memorized_moves]
    ELSE LET r == memoized_branches(rs, n_fields, memorized_moves,
                      Children(n_fields, rs[idx + 1], X, Y), 1, idx,
                      [n |-> Inf, seq |-> <<>>])
         IN  [n |-> r.n, seq |-> r.seq,
              memo |-> [key \in DOMAIN r.memo \cup {<<X, Y, idx>>} |->
                          IF key = <<X, Y, idx>>
                          THEN [n |-> r.n, seq |-> r.seq]
                          ELSE r.memo[key]]]

\* the dice sequences of the calls: a 6 to enter, then a face to advance by
OracleRollSeqs ==
    {[i \in 1..OracleRolls |-> IF i % 2 = 1 THEN 6 ELSE f] : f \in {1, 2, 3}}

\* the calls of the two-token solver from the all-home state
SolverCalls ==
    {[fn |-> "find_multitoken_minimum", rolls |-> rs,
      n_fields |-> OracleFields, X |-> 0, Y |-> 0, index |-> 0] :
        rs \in OracleRollSeqs}

\* the calls minimax(game, True) of _make_move from the all-home state, both
\* sides rolling the same sequence
MinimaxCalls ==
    {[fn |-> "minimax", maximizing_player |-> TRUE,
      game_state |-> GameSim(OracleFields, n,
                             [token \in (IF n = 1 THEN {"X", "A"}
                                         ELSE {"X", "Y", "A", "B"}) |-> 0],
                             [i \in 1..OracleRolls |-> <<rs[i], rs[i]>>], 0)] :
        n \in {1, 2}, rs \in OracleRollSeqs}

InitOracle ==
    /\ EngineIdle
    /\ chk = NoCall
    /\ dp = [op |-> "oracle", log |-> <<>>,
             memorized_moves |-> fresh_table(<<>>)]

\* a caller solves a dice sequence; the table it passed stays behind
SolveSequence ==
    /\ dp.op = "oracle"
    /\ Len(dp.log) < MaxCalls
    /\ \E call \in SolverCalls :
          LET r == memoized_multitoken_minimum(call.rolls, call.n_fields,
                       fresh_table(dp.memorized_moves), call.X, call.Y,
                       call.index)
          IN  dp' = [op |-> "oracle",
                     log |-> Append(dp.log,
                                 [call |-> call, result |-> <<r.n, r.seq>>]),
                     memorized_moves |-> r.memo]
    /\ UNCHANGED <<engine_vars, chk>>

\* a caller asks minimax for a move
SearchMove ==
    /\ dp.op = "oracle"
    /\ Len(dp.log) < MaxCalls
    /\ \E call \in MinimaxCalls :
          LET r == minimax(call.game_state, call.maximizing_player, NegInf,
                           Inf)
          IN  dp' = [op |-> "oracle",
                     log |-> Append(dp.log,
                                 [call |-> [fn |-> call.fn,
                                            positions |->
                                              call.game_state.token_positions,
                                            rolls |-> call.game_state.rolls],
                                  result |-> <<r.score, r.move>>]),
                     memorized_moves |-> dp.memorized_moves]
    /\ UNCHANGED <<engine_vars, chk>>

NextOracle == SolveSequence \/ SearchMove

SpecOracle == InitOracle /\ [][NextOracle]_vars

\* the result of a solver call made on its own
SolvedAlone(call) ==
    LET r == find_multitoken_minimum(call.rolls, call.n_fields, call.X,
                                     call.Y, call.index)
    IN  <<r.n, r.seq>>

----------------------------------------------------------------------------
(* Further claims about the Turn Engine, checked under Spec *)

\* C17: the turn index changes only when a round completes without abort,
\* and then by one; when it equals turn_limit in an episode that is not
\* aborted the status is DRAW, also when the side has just moved its last
\* token to n_fields.
C17_DrawAtTurnLimit ==
    [][/\ (pc = "prompt" /\ pc' = "loop")
            => (turn' = turn + 1 /\ ~is_aborted')
       /\ turn' # turn
            => (pc = "prompt" /\ pc' = "loop" /\ last' = "accepted"
                /\ turn' = turn + 1)
       /\ (~is_aborted' /\ turn' = turn_limit)
            => check_game_status(is_aborted', turn', turn_limit, tokens',
                                 NFields) = "DRAW"
       /\ (pc' = "end" /\ ~is_aborted' /\ turn' = turn_limit)
            => game_result' = "DRAW"]_vars

\* C17 witness: the last token reached n_fields in the final round, and DRAW
\* was logged
C17_Witness ==
    /\ pc = "end"
    /\ game_result = "DRAW"
    /\ turn = turn_limit
    /\ is_won(tokens, NFields)

\* C19: two tokens of a side never share a field in 1..n_fields-1.
C19_NoSharedField ==
    \A p \in DOMAIN tokens : \A a, b \in DOMAIN tokens[p] :
        (a # b /\ tokens[p][a].position = tokens[p][b].position)
            => tokens[p][a].position \notin 1..(NFields - 1)

\* C19 witness: a reply that enters Y on field 1, held by X, was rejected
C19_Witness ==
    /\ n_tokens = 2
    /\ ~reprompting
    /\ last = "rejected"
    /\ error = <<"incorrect_move", "Y">>
    /\ tokens["Player 1"]["X"].position = 1
    /\ tokens["Player 1"]["Y"].position = 0
    /\ turn < turn_limit
    /\ roll = 6

----------------------------------------------------------------------------
(* SpecStatus: _check_game_status applied to one state of the game *)

\* n_fields of the states
StatusFields == 2
\* turn_limit of the states
StatusTurns == 2

\* the token dictionaries of the sides of a game with n tokens a side
StatusTokens(n, sides) ==
    LET model == TokenDicts(TokenNames("Model", n), StatusFields)
        custom == TokenDicts(TokenNames("CustomResponseModel", n),
                             StatusFields)
    IN  IF sides = 1 THEN {[p \in {"Player 1"} |-> d] : d \in model}
        ELSE {[p \in {"Player 1", "Player 2"} |->
                  IF p = "Player 1" THEN d1 ELSE d2] :
                      d1 \in model, d2 \in custom}

InitStatus ==
    /\ EngineIdle
    /\ dp = NoCall
    /\ \E n \in {1, 2}, sides \in {1, 2} :
          chk \in {[op |-> "state", is_aborted |-> a, turn |-> t,
                    turn_limit |-> StatusTurns, n_fields |-> StatusFields,
                    tokens |-> all_tokens] :
                      a \in BOOLEAN, t \in 0..StatusTurns,
                      all_tokens \in StatusTokens(n, sides)}

\* the call self._check_game_status()
CallCheckGameStatus ==
    /\ chk.op = "state"
    /\ chk' = [op |-> "status", is_aborted |-> chk.is_aborted,
               turn |-> chk.turn, turn_limit |-> chk.turn_limit,
               n_fields |-> chk.n_fields, tokens |-> chk.tokens,
               out |-> check_game_status(chk.is_aborted, chk.turn,
                                         chk.turn_limit, chk.tokens,
                                         chk.n_fields)]
    /\ UNCHANGED <<engine_vars, dp>>

NextStatus == CallCheckGameStatus

SpecStatus == InitStatus /\ [][NextStatus]_vars

\* side p of the checked state has all its tokens on n_fields
AllHome(p) ==
    \A t \in DOMAIN chk.tokens[p] : chk.tokens[p][t].position = chk.n_fields

\* C18: in an episode that is not aborted, below the turn limit, the status
\* is WIN exactly when Player 1 has all its tokens on n_fields, LOSE exactly
\* when another side has and Player 1 has not, and in progress otherwise.
C18_WinLoseInProgress ==
    (chk.op = "status" /\ ~chk.is_aborted /\ chk.turn < chk.turn_limit)
        => LET others == DOMAIN chk.tokens \ {"Player 1"}
           IN  /\ chk.out = "WIN" <=> AllHome("Player 1")
               /\ chk.out = "LOSE" <=> /\ \E p \in others : AllHome(p)
                                       /\ ~AllHome("Player 1")
               /\ chk.out = False <=> \A p \in DOMAIN chk.tokens : ~AllHome(p)
               /\ chk.out \in {"WIN", "LOSE", False}

\* C18 witness: Player 2 has finished, Player 1 has not
C18_Witness ==
    /\ chk.op = "status" /\ ~chk.is_aborted /\ chk.turn < chk.turn_limit
    /\ "Player 2" \in DOMAIN chk.tokens
    /\ AllHome("Player 2")
    /\ ~AllHome("Player 1")
    /\ chk.out = "LOSE"

----------------------------------------------------------------------------
(* Further claims about the Legality Checker, checked under SpecChk *)

\* token t, left where it is by the reply, is at home with a 6 rolled, or in
\* play with position + roll <= n_fields
LeftBehind(t) ==
    /\ t \notin Changed
    /\ \/ chk.toks[t].position = 0 /\ chk.roll = 6
       \/ chk.toks[t].position > 0
          /\ chk.toks[t].position + chk.roll <= chk.n_fields

\* the reason the checker gives for leaving token t where it is
ReasonLeft(t) ==
    IF chk.toks[t].position = 0 THEN <<"not_moved_to_board", t>>
    ELSE <<"not_moved", t>>

\* the move of token t in the checked reply is an entry on a free field 1
\* with a 6, or an advance by the roll to a field that is free or n_fields
MoveIsRight(t) ==
    IF chk.toks[t].position = 0
    THEN /\ chk.roll = 6
         /\ chk.move[t] = 1
         /\ (chk.n_fields = 1
             \/ \A u \in DOMAIN chk.toks : chk.toks[u].position # 1)
    ELSE /\ chk.move[t] = chk.toks[t].position + chk.roll
         /\ (chk.move[t] = chk.n_fields
             \/ \A u \in DOMAIN chk.toks : chk.toks[u].position # chk.move[t])

\* C20 as claimed: a reply is rejected whenever it leaves a token behind that
\* is at home with a 6 rolled or in play with position + roll <= n_fields,
\* also when it moves the other token; the reason is not_moved_to_board or
\* not_moved unless the move of the other token is itself wrong.
C20_LeftBehindRejected ==
    (chk.op = "checked" /\ Cardinality(Changed) <= 1)
        => \A t \in DOMAIN chk.toks :
              LeftBehind(t)
                  => /\ ~chk.out.ok
                     /\ chk.out.error[1] \in {"not_moved_to_board",
                                              "not_moved", "incorrect_move"}

\* C20 amended: a reply that moves no token is rejected exactly when it
\* leaves such a token behind, with the reason of the first one; a reply
\* that moves one token is judged by that move alone, and is never rejected
\* as not_moved_to_board or not_moved.
C20_LeftBehindWhenNoneMoved ==
    chk.op = "checked"
        => /\ Changed = {}
                => LET ks == Keys(chk.toks)
                       left == {i \in DOMAIN ks : LeftBehind(ks[i])}
                   IN  IF left = {} THEN chk.out.ok
                       ELSE /\ ~chk.out.ok
                            /\ chk.out.error =
                                 ReasonLeft(ks[CHOOSE i \in left :
                                                 \A j \in left : i <= j])
           /\ \A t \in DOMAIN chk.toks :
                 Changed = {t}
                     => /\ chk.out.ok <=> MoveIsRight(t)
                        /\ ~chk.out.ok
                              => chk.out.error = <<"incorrect_move", t>>

\* C20 witness: X advances by a 6 while Y, at home, could have entered; the
\* reply is accepted
C20_Witness ==
    /\ chk.op = "checked" /\ chk.n = 2
    /\ Changed = {"X"}
    /\ chk.roll = 6
    /\ chk.toks["X"].position > 0
    /\ chk.toks["Y"].position = 0
    /\ LeftBehind("Y")
    /\ CanEnter("Y")
    /\ chk.out.ok

\* the reply enters home token t: a 6, target 1, and field 1 not held by the
\* side's other token
LegalEntry(t) ==
    /\ chk.toks[t].position = 0
    /\ chk.roll = 6
    /\ chk.move[t] = 1
    /\ \A u \in Others(t) : chk.toks[u].position # 1

\* the reply advances in-play token t by exactly the roll to n_fields or to a
\* field not held by the side's other token
ExactAdvance(t) ==
    /\ chk.toks[t].position > 0
    /\ chk.move[t] = chk.toks[t].position + chk.roll
    /\ \/ chk.move[t] = chk.n_fields
       \/ \A u \in Others(t) : chk.toks[u].position # chk.move[t]

\* C21: a reply that changes exactly one token is rejected with
\* incorrect_move naming it unless it is a legal entry or an exact advance;
\* with a roll other than 6 every reply that moves a home token is rejected.
C21_OtherMovesIncorrect ==
    chk.op = "checked"
        => \A t \in DOMAIN chk.toks :
              Changed = {t}
                  => /\ (~LegalEntry(t) /\ ~ExactAdvance(t))
                          => /\ ~chk.out.ok
                             /\ chk.out.error = <<"incorrect_move", t>>
                     /\ (chk.toks[t].position = 0 /\ chk.roll # 6)
                          => ~chk.out.ok

\* C21 witness: a home token is put on field 1 with a roll other than 6 while
\* field 1 is free, and the reply is rejected as incorrect_move
C21_Witness ==
    /\ chk.op = "checked" /\ chk.n = 2
    /\ Changed = {"Y"}
    /\ chk.toks["Y"].position = 0
    /\ chk.move["Y"] = 1
    /\ chk.toks["X"].position > 1
    /\ chk.roll # 6
    /\ ~chk.out.ok
    /\ chk.out.error = <<"incorrect_move", "Y">>

\* C22: a reply that changes no token is accepted exactly when every token of
\* the side is at home with a roll other than 6 or in play with
\* position + roll > n_fields.
C22_RestAccepted ==
    (chk.op = "checked" /\ Changed = {})
        => (chk.out.ok
              <=> \A t \in DOMAIN chk.toks :
                     \/ chk.toks[t].position = 0 /\ chk.roll # 6
                     \/ chk.toks[t].position > 0
                        /\ chk.toks[t].position + chk.roll > chk.n_fields)

\* C22 witness: one token at home, the other one field short of overshooting,
\* and the unchanged reply is accepted
C22_Witness ==
    /\ chk.op = "checked" /\ chk.n = 2
    /\ Changed = {}
    /\ chk.toks["X"].position = 0
    /\ chk.toks["Y"].position \in 1..(chk.n_fields - 1)
    /\ chk.toks["Y"].position + chk.roll = chk.n_fields + 1
    /\ chk.out.ok


----------------------------------------------------------------------------
(* Claims about the reprompt budget, checked under Spec *)

C24_RepromptOnlyWithAttemptsLeft ==
    [][total_retry_count' # total_retry_count
          => /\ reprompt_attempts' < attempt_limit
             /\ pc' = "prompt"
             /\ index' = index
             /\ turn' = turn
             /\ ~is_aborted']_vars


\* C25: without reprompting the first failed reply of a turn, unparsed or
\* rejected, aborts the episode: the loop is left with is_aborted set, so
\* that reply was the only one requested in the turn, no reprompt is issued,
\* and reprompt_attempts and total_retry_count stay 0.
C25_FirstFailureAborts ==
    [][~reprompting
          => /\ reprompt_attempts' = 0
             /\ total_retry_count' = 0
             /\ (asked' # asked /\ last' \in {"unparsed", "rejected"})
                   => /\ is_aborted'
                      /\ pc' = "done"
                      /\ failed' = 1]_vars


----------------------------------------------------------------------------
(* SpecCompose: ProgrammaticPlayer._compose_response applied to one move,
   and _check_move applied to the reply it composed *)

CompFields == 3

\* ProgrammaticPlayer._compose_response: self.tokens.copy() is a shallow
\* copy, so writing the move into tokens[move[0]]["position"] writes into the
\* player's own token dictionary; in_play is not touched. The reply lists
\* every token with the position then held.
compose_response(toks, move) ==
    LET written == [toks EXCEPT ![move[1]].position = move[2]]
        keys == Keys(written)
    IN  [tokens |-> written,
         text |-> [i \in DOMAIN keys |-> <<keys[i], written[keys[i]].position>>]]

\* the moves _make_move may return for a side holding toks on roll r: the
\* moves GameSim.get_possible_moves lists for the maximizing player, the
\* other side's tokens at home
OracleMoves(toks, n, r, n_fields) ==
    LET positions == [t \in {"X", "Y", "A", "B"} |->
                        IF t \in DOMAIN toks THEN toks[t].position ELSE 0]
    IN  get_possible_moves(GameSim(n_fields, n, positions, <<<<r, r>>>>, 0), 1)

InitCompose ==
    /\ EngineIdle
    /\ dp = NoCall
    /\ \E n \in {1, 2} :
          LET names == TokenNames("CustomResponseModel", n)
          IN  \E toks \in TokenDicts(names, CompFields), r \in Faces :
                LET moves == OracleMoves(toks, n, r, CompFields)
                IN  chk \in {[op |-> "state", n |-> n, names |-> names,
                              before |-> toks, move |-> moves[i],
                              roll |-> r, n_fields |-> CompFields] :
                                i \in DOMAIN moves}

\* the call self._compose_response(move) of _custom_response
ComposeResponse ==
    /\ chk.op = "state"
    /\ LET composed == compose_response(chk.before, chk.move)
       IN  chk' = [op |-> "composed", n |-> chk.n, names |-> chk.names,
                   before |-> chk.before, move |-> chk.move,
                   roll |-> chk.roll, n_fields |-> chk.n_fields,
                   tokens |-> composed.tokens, text |-> composed.text]
    /\ UNCHANGED <<engine_vars, dp>>

\* _does_game_proceed: the composed reply is parsed and _check_move compares
\* it with players_dic[player].tokens, the dictionary the player holds now
CheckComposed ==
    /\ chk.op = "composed"
    /\ LET parsed == parse_text(chk.text, chk.names)
       IN  chk' = [op |-> "checked", n |-> chk.n, names |-> chk.names,
                   before |-> chk.before, move |-> chk.move,
                   roll |-> chk.roll, n_fields |-> chk.n_fields,
                   tokens |-> chk.tokens, text |-> chk.text,
                   parsed |-> parsed.move,
                   out |-> check_move(chk.tokens, chk.n, parsed.move,
                                      chk.roll, chk.n_fields)]
    /\ UNCHANGED <<engine_vars, dp>>

NextCompose == ComposeResponse \/ CheckComposed

SpecCompose == InitCompose /\ [][NextCompose]_vars

\* C26: composing the programmatic side's reply changes no token position,
\* so the positions the side holds when its reply is checked are those it
\* held before the reply was produced, and the checker's verdict is the one
\* it gives for the reply against those positions.
C26_ReplyKeepsPositions ==
    /\ chk.op \in {"composed", "checked"}
          => \A t \in DOMAIN chk.before :
                chk.tokens[t].position = chk.before[t].position
    /\ chk.op = "checked"
          => chk.out = check_move(chk.before, chk.n, chk.parsed, chk.roll,
                                  chk.n_fields)


----------------------------------------------------------------------------
(* Claims about the effects of _check_move, checked under SpecChk *)

\* C27: evaluating _check_move changes no engine state at all: token
\* positions, in_play flags, board, turn index, reprompt counter, error
\* counter and the stored error are what they were, and the verdict is
\* carried by the return value alone.
C27_CheckMoveIsPure ==
    [][chk'.op = "checked"
          => /\ chk'.toks = chk.toks
             /\ UNCHANGED engine_vars]_vars

\* C27, amended: evaluating _check_move changes no token position, in_play
\* flag, board, turn index or reprompt counter. An accepted reply changes
\* nothing else either; a rejected reply stores its reason in self.error
\* and, unless the reason is simultaneous_move, adds one to error_count.
C27_CheckMoveStoresError ==
    [][chk'.op = "checked"
          => /\ chk'.toks = chk.toks
             /\ UNCHANGED <<tokens, current_state, turn, index, is_aborted,
                            reprompt_attempts, total_retry_count>>
             /\ chk'.out.ok => UNCHANGED <<error, error_count>>
             /\ ~chk'.out.ok
                   => /\ error' = chk'.out.error
                      /\ error' # NoError
                      /\ error_count' =
                            IF error'[1] = "simultaneous_move"
                            THEN error_count ELSE error_count + 1]_vars

\* a rejected reply has left its reason in self.error and is counted
C27_Witness ==
    /\ chk.op = "checked"
    /\ ~chk.out.ok
    /\ error = <<"incorrect_move", "Y">>
    /\ error_count = 1
    /\ chk.toks["Y"].position = 0
    /\ chk.move["Y"] = 2


----------------------------------------------------------------------------
(* SpecApply: an accepted move applied by _does_game_proceed in an episode
   of two sides *)

ApplyFields == 3

InitApply ==
    /\ EngineIdle
    /\ dp = NoCall
    /\ \E n \in {1, 2}, p \in {"Player 1", "Player 2"} :
          LET names == TokenNames(IF p = "Player 1" THEN "Model"
                                  ELSE "CustomResponseModel", n)
              ts == {names[i] : i \in DOMAIN names}
          IN  chk \in {[op |-> "state", n |-> n, player |-> p,
                        tokens |-> [q \in {"Player 1", "Player 2"} |->
                                      IF q = "Player 1" THEN own ELSE other],
                        move |-> move, roll |-> r, n_fields |-> ApplyFields] :
                          own \in TokenDicts(TokenNames("Model", n),
                                             ApplyFields),
                          other \in TokenDicts(
                                      TokenNames("CustomResponseModel", n),
                                      ApplyFields),
                          move \in [ts -> 0..(ApplyFields + ExtraTarget)],
                          r \in Faces}

\* _does_game_proceed: _check_move holds, _update_player_dict writes the
\* move into players_dic[player].tokens and Game.update_board redraws the
\* board, or raises
ApplyMove ==
    /\ chk.op = "state"
    /\ check_move(chk.tokens[chk.player], chk.n, chk.move, chk.roll,
                  chk.n_fields).ok
    /\ LET updated == update_player_dict(chk.tokens[chk.player], chk.move)
           board == update_board(updated, chk.move, chk.n_fields)
       IN  chk' = [op |-> "applied", n |-> chk.n, player |-> chk.player,
                   before |-> chk.tokens,
                   tokens |-> [chk.tokens EXCEPT ![chk.player] = updated],
                   move |-> chk.move, roll |-> chk.roll,
                   n_fields |-> chk.n_fields, raised |-> board.raised,
                   current_state |-> board.board]
    /\ UNCHANGED <<engine_vars, dp>>

NextApply == ApplyMove

SpecApply == InitApply /\ [][NextApply]_vars

\* C28: an applied move leaves each token of the moving side at its target
\* with in_play = (target > 0), so in_play = (position > 0) holds for every
\* token afterwards as it did before, and it leaves the other side's tokens
\* as they were, also when a token lands on a field an opponent token
\* holds.
C28_ApplyNeverCaptures ==
    chk.op = "applied"
       => /\ \A t \in DOMAIN chk.move :
                /\ chk.tokens[chk.player][t].position = chk.move[t]
                /\ chk.tokens[chk.player][t].in_play = (chk.move[t] > 0)
          /\ \A q \in DOMAIN chk.tokens : \A t \in DOMAIN chk.tokens[q] :
                chk.tokens[q][t].in_play = (chk.tokens[q][t].position > 0)
          /\ \A q \in DOMAIN chk.tokens \ {chk.player} :
                chk.tokens[q] = chk.before[q]

\* a token has moved onto a field below n_fields that an opponent token
\* holds, and one token of the move stays at home
C28_Witness ==
    /\ chk.op = "applied"
    /\ chk.player = "Player 1"
    /\ chk.before["Player 1"]["X"].position = 1
    /\ chk.tokens["Player 1"]["X"].position = 2
    /\ chk.n = 2
    /\ chk.tokens["Player 1"]["Y"].position = 0
    /\ chk.tokens["Player 2"]["A"].position = 2


----------------------------------------------------------------------------
(* SpecSim: GameSim.get_new_state applied to one state and one move *)

SimFields == 3

\* a simulated game at its first turn, a side and one of the moves
\* get_possible_moves lists for it, as minimax passes them to get_new_state
InitSim ==
    /\ EngineIdle
    /\ chk = NoCall
    /\ \E n \in {1, 2}, rs \in Faces \X Faces, p \in {0, 1} :
       \E q \in SimPositions(n, SimFields) :
          LET gs == GameSim(SimFields, n, q, <<rs>>, 0)
              moves == get_possible_moves(gs, p)
          IN  dp \in {[op |-> "state", game_state |-> gs, player |-> p,
                       move |-> moves[i]] : i \in DOMAIN moves}

\* the call game_state.get_new_state(move, player)
CallGetNewState ==
    /\ dp.op = "state"
    /\ dp' = [op |-> "new_state", game_state |-> dp.game_state,
              player |-> dp.player, move |-> dp.move,
              out |-> get_new_state(dp.game_state, dp.move, dp.player)]
    /\ UNCHANGED <<engine_vars, chk>>

NextSim == CallGetNewState

SpecSim == InitSim /\ [][NextSim]_vars

\* C30: in the state get_new_state returns the moved token stands on its
\* destination, the opponent tokens that stood on the destination are at 0
\* when the destination is not n_fields, and every other token, and every
\* token at all when the destination is n_fields, stands where it stood.
C30_NewStateCaptures ==
    dp.op = "new_state"
       => LET before == dp.game_state.token_positions
              after == dp.out.token_positions
              destination == dp.move[2]
              opponents == TokenSet(dp.game_state, 1 - dp.player)
              sent_home ==
                  IF destination = dp.game_state.n_fields THEN {}
                  ELSE {t \in opponents : before[t] = destination}
          IN  /\ DOMAIN after = DOMAIN before
              /\ after[dp.move[1]] = destination
              /\ \A t \in sent_home : after[t] = 0
              /\ \A t \in DOMAIN before \ (sent_home \cup {dp.move[1]}) :
                    after[t] = before[t]

\* A has moved from 1 onto field 2, where X stood and Y did not; X is at 0
C30_Witness ==
    /\ dp.op = "new_state"
    /\ dp.game_state.n_tokens = 2
    /\ dp.player = 1
    /\ dp.move = <<"A", 2>>
    /\ dp.game_state.token_positions["A"] = 1
    /\ dp.game_state.token_positions["X"] = 2
    /\ dp.game_state.token_positions["Y"] = 1
    /\ dp.out.token_positions["X"] = 0
    /\ dp.out.token_positions["Y"] = 1


----------------------------------------------------------------------------
(* Claims about the order of play, checked under Spec *)

\* the step is a reply whose move _check_move accepted
AcceptedReply == asked' # asked /\ last' = "accepted" /\ exc' # "TypeError"

\* C29: a round prompts Player 1 first and the next side only after the
\* side before it had its move accepted; a side is prompted in a turn below
\* len(rolls) with the roll rolls[turn][index], or rolls[turn] with one
\* side; and the turn index goes up by one exactly when the move of the
\* round's last side is accepted.
C29_RoundOrder ==
    [][/\ (pc = "loop" /\ pc' = "prompt") => player' = "Player 1"
       /\ (pc = "prompt" /\ pc' = "prompt" /\ index' # index)
             => /\ index' = index + 1
                /\ turn' = turn
                /\ AcceptedReply
       /\ pc' = "prompt"
             => /\ turn' < Len(rolls')
                /\ index' < n_sides'
                /\ roll' \in Faces
       /\ turn' # turn
             => /\ turn' = turn + 1
                /\ AcceptedReply
                /\ index = n_sides - 1
       /\ (AcceptedReply /\ index = n_sides - 1) => turn' = turn + 1]_vars


----------------------------------------------------------------------------
(* SpecPath: one path of the minimax search, from the call on a start
   state down the recursive calls *)

PathFields == 3
PathRolls == 2

\* the start of a search: minimax(game_state, maximizing_player) on a state
\* at any turn that has a roll left
InitPath ==
    /\ EngineIdle
    /\ chk = NoCall
    /\ \E n \in {1, 2} :
          dp \in {[op |-> "node", start |-> GameSim(PathFields, n, q, rs, t),
                   first |-> b, game_state |-> GameSim(PathFields, n, q, rs, t),
                   maximizing_player |-> b, depth |-> 1, mover |-> -1,
                   roll |-> 0, move |-> NoMove] :
                     b \in BOOLEAN, q \in SimPositions(n, PathFields),
                     rs \in [1..PathRolls -> RollPairs], t \in 0..PathRolls}

\* minimax is past its cutoff test, takes one of the possible moves and
\* calls itself on the child with the other side to move
Descend ==
    /\ dp.op = "node"
    /\ ~is_cutoff(dp.game_state)
    /\ LET gs == dp.game_state
           p == IF dp.maximizing_player THEN 1 ELSE 0
           moves == get_possible_moves(gs, p)
       IN  \E i \in DOMAIN moves :
              dp' = [op |-> "node", start |-> dp.start, first |-> dp.first,
                     game_state |-> get_new_state(gs, moves[i], p),
                     maximizing_player |-> ~dp.maximizing_player,
                     depth |-> dp.depth + 1, mover |-> p,
                     roll |-> gs.rolls[gs.turn + 1][p + 1],
                     move |-> moves[i]]
    /\ UNCHANGED <<engine_vars, chk>>

\* minimax returns at its cutoff test: the state is scored
ScoreLeaf ==
    /\ dp.op = "node"
    /\ is_cutoff(dp.game_state)
    /\ dp' = [dp EXCEPT !.op = "leaf"]
    /\ UNCHANGED <<engine_vars, chk>>

NextPath == Descend \/ ScoreLeaf

SpecPath == InitPath /\ [][NextPath]_vars

\* C31: along a search path the turn goes up by one when side 1, the
\* maximizing side, has moved and stays when side 0 has moved; the sides
\* move in turns; and the side s moving from a state at turn t moves by
\* rolls[t][s].
C31_TurnAdvancesAfterMaximizer ==
    [][dp'.depth = dp.depth + 1
          => /\ dp'.mover = (IF dp.maximizing_player THEN 1 ELSE 0)
             /\ dp.mover # -1 => dp'.mover = 1 - dp.mover
             /\ dp'.game_state.turn =
                   dp.game_state.turn + (IF dp'.mover = 1 THEN 1 ELSE 0)
             /\ dp.game_state.turn + 1 \in DOMAIN dp.game_state.rolls
             /\ dp'.roll =
                   dp.game_state.rolls[dp.game_state.turn + 1][dp'.mover + 1]
             /\ \/ dp'.move[2] = dp.game_state.token_positions[dp'.move[1]]
                \/ dp'.move[2] = dp.game_state.token_positions[dp'.move[1]]
                                    + dp'.roll
                \/ dp'.roll = 6 /\ dp'.move[2] = 1]_vars

\* side 0 moved first at turn 0, then side 1, then side 0 again at turn 1
C31_Witness ==
    /\ dp.op = "node"
    /\ dp.start.turn = 0
    /\ ~dp.first
    /\ dp.depth = 4
    /\ dp.mover = 0
    /\ dp.game_state.turn = 1
    /\ dp.roll = dp.game_state.rolls[2][1]


----------------------------------------------------------------------------
(* Further claims about GameSim, checked under SpecSim *)

\* the advance and entry candidates of side p in the state gs
Candidates(gs, p) ==
    LET own == TokenSet(gs, p)
        r == gs.rolls[gs.turn + 1][p + 1]
        pos == gs.token_positions
        held(t, f) == f # gs.n_fields /\ \E u \in own \ {t} : pos[u] = f
    IN  {<<t, pos[t] + r>> : t \in {u \in own : /\ pos[u] > 0
                                                /\ pos[u] + r <= gs.n_fields
                                                /\ ~held(u, pos[u] + r)}}
        \cup {<<t, 1>> : t \in {u \in own : /\ r = 6
                                            /\ pos[u] = 0
                                            /\ ~held(u, 1)}}

\* the null moves of side p: each token stays where it is
NullMoves(gs, p) == {<<t, gs.token_positions[t]>> : t \in TokenSet(gs, p)}

\* get_possible_moves lists exactly the candidates, or the null moves when
\* there is no candidate
ListsCandidates(gs, p) ==
    LET moves == get_possible_moves(gs, p)
        listed == {moves[i] : i \in DOMAIN moves}
    IN  listed = IF Candidates(gs, p) # {} THEN Candidates(gs, p)
                 ELSE NullMoves(gs, p)

\* C32: get_possible_moves lists exactly the advance and entry candidates
\* of the side, only null moves when there is none, and a null move applied
\* with get_new_state leaves every token of both sides where it was.
C32_CandidatesOrNullMoves ==
    /\ dp.op \in {"state", "new_state"}
          => ListsCandidates(dp.game_state, dp.player)
    /\ (dp.op = "new_state" /\ Candidates(dp.game_state, dp.player) = {})
          => dp.out.token_positions = dp.game_state.token_positions


----------------------------------------------------------------------------
(* SpecFrame: what an oracle call leaves in the objects passed to it *)

\* get_new_state writing the move into self.token_positions itself
self_written_in_place(gs, move, p) ==
    [gs EXCEPT !.token_positions =
                  get_new_state(gs, move, p).token_positions]

\* the receiver after get_new_state: new_token_positions is
\* self.token_positions.copy(), a new dict of the same integers, so the
\* writes go to the copy, and the turn is passed to the new GameSim only
self_after_get_new_state(gs, move, p) == gs

\* the receiver after game_state.get_new_state was called for the moves
\* tried from index i on
RECURSIVE self_after_moves(_, _, _, _)
self_after_moves(gs, tried, i, p) ==
    IF i > Len(tried) THEN gs
    ELSE self_after_moves(self_after_get_new_state(gs, tried[i], p), tried,
                          i + 1, p)

\* game_state after minimax(game_state, maximizing_player) with the default
\* alpha and beta: past the cutoff test the maximizing loop calls
\* get_new_state for every possible move (best_score >= inf never holds),
\* the minimizing loop for the first one (best_score <= inf holds); the
\* recursive calls are made on the children
game_state_after_minimax(gs, maximizing_player) ==
    IF is_cutoff(gs) THEN gs
    ELSE LET p == IF maximizing_player THEN 1 ELSE 0
             possible_moves == get_possible_moves(gs, p)
             tried == IF maximizing_player THEN possible_moves
                      ELSE SubSeq(possible_moves, 1, 1)
         IN  self_after_moves(gs, tried, 1, p)

\* the rolls of side 0 as the list the scorer passes to the DP solver
rolls_of_side(gs, p) == [i \in DOMAIN gs.rolls |-> gs.rolls[i][p + 1]]

\* the call game_state.get_new_state(move, player)
FrameGetNewState ==
    /\ dp.op = "state"
    /\ dp' = [op |-> "called", fn |-> "get_new_state",
              before |-> dp.game_state,
              game_state |-> self_after_get_new_state(dp.game_state, dp.move,
                                                      dp.player),
              out |-> get_new_state(dp.game_state, dp.move, dp.player)]
    /\ UNCHANGED <<engine_vars, chk>>

\* the call minimax(game_state, maximizing_player)
FrameMinimax ==
    /\ dp.op = "state"
    /\ dp' = [op |-> "called", fn |-> "minimax", before |-> dp.game_state,
              game_state |-> game_state_after_minimax(dp.game_state,
                                                      dp.player = 1),
              out |-> minimax(dp.game_state, dp.player = 1, NegInf, Inf)]
    /\ UNCHANGED <<engine_vars, chk>>

\* the call find_multitoken_minimum(rolls, n_fields, memorized_moves, X, Y,
\* index) on side 0's tokens: the positions and the index are integers
\* passed by value, rolls is only read (rolls[index], len(rolls)), and the
\* table is written
FrameSolver ==
    /\ dp.op = "state"
    /\ LET gs == dp.game_state
           rs == rolls_of_side(gs, 0)
           X == gs.token_positions["X"]
           Y == IF gs.n_tokens = 2 THEN gs.token_positions["Y"] ELSE 0
           r == memoized_multitoken_minimum(rs, gs.n_fields,
                                            fresh_table(<<>>), X, Y, gs.turn)
       IN  dp' = [op |-> "called", fn |-> "find_multitoken_minimum",
                  before |-> gs, game_state |-> gs,
                  rolls_before |-> rs, rolls |-> rs,
                  memorized_moves |-> r.memo, out |-> <<r.n, r.seq>>]
    /\ UNCHANGED <<engine_vars, chk>>

NextFrame == FrameGetNewState \/ FrameMinimax \/ FrameSolver

SpecFrame == InitSim /\ [][NextFrame]_vars

----------------------------------------------------------------------------
(* Further claims about the Sequence Oracle, checked under SpecDP *)

\* the tokens a solver variant tracks
Tracked(variant) == IF variant = "monotoken" THEN {"X"} ELSE {"X", "Y"}

\* the positions after the moves of seq, each a pair (token, new_position),
\* are applied in order to the positions pos from roll index idx on
RECURSIVE Replayed(_, _, _)
Replayed(pos, seq, idx) ==
    IF seq = <<>> THEN pos
    ELSE Replayed([pos EXCEPT ![Head(seq)[1]] = Head(seq)[2]], Tail(seq),
                  idx + 1)

\* C34: a finite count k comes with a sequence of exactly k moves
\* (token, new_position) that names tracked tokens only and, applied in
\* order, leaves every tracked token on n_fields.
C34_SequenceReachesGoal ==
    (dp.op \in {"multitoken", "monotoken"} /\ dp.out.n # Inf)
       => /\ Len(dp.out.seq) = dp.out.n
          /\ \A i \in DOMAIN dp.out.seq :
                /\ dp.out.seq[i] \in Seq(Tracked(dp.op) \cup 0..dp.n_fields)
                /\ Len(dp.out.seq[i]) = 2
                /\ dp.out.seq[i][1] \in Tracked(dp.op)
                /\ dp.out.seq[i][2] \in 1..dp.n_fields
          /\ LET final == Replayed([t \in {"X", "Y"} |->
                                      IF t = "X" THEN dp.X ELSE dp.Y],
                                   dp.out.seq, dp.index)
             IN  \A t \in Tracked(dp.op) : final[t] = dp.n_fields


----------------------------------------------------------------------------
(* Further claims about the search, checked under SpecPath *)

\* C35: the search below a call on a state at turn t is at most
\* 2 * (len(rolls) - t) + 1 calls deep, so every call returns, and a call
\* that goes past the cutoff test, and so reads rolls[turn], has
\* turn < len(rolls).
C35_SearchDepthBounded ==
    dp.op \in {"node", "leaf"}
       => /\ dp.depth <= 2 * (Len(dp.start.rolls) - dp.start.turn) + 1
          /\ ~is_cutoff(dp.game_state)
                => /\ dp.game_state.turn < Len(dp.game_state.rolls)
                   /\ get_possible_moves(dp.game_state, 0) # <<>>
                   /\ get_possible_moves(dp.game_state, 1) # <<>>
          /\ dp.op = "leaf" => is_cutoff(dp.game_state)

\* a search from turn 0 with two turns of rolls has gone five calls deep
\* and stops there
C35_Witness ==
    /\ dp.op = "leaf"
    /\ dp.start.turn = 0
    /\ Len(dp.start.rolls) = PathRolls
    /\ dp.depth = 2 * PathRolls + 1
    /\ ~is_terminal(dp.game_state).terminal


----------------------------------------------------------------------------
(* Further claims about applied moves, checked under SpecApply *)

\* C36: the board drawn after an accepted move shows every token in play of
\* either side, standing on a field in 1..n_fields, on that field (one of
\* them when several stand on it), and shows a token on no other field; so
\* the tokens of the side that did not move are still shown.
C36_BoardShowsAllTokens ==
    (chk.op = "applied" /\ chk.raised = None)
       => LET on(f) == {t \in {"X", "Y", "A", "B"} :
                          \E q \in DOMAIN chk.tokens :
                             /\ t \in DOMAIN chk.tokens[q]
                             /\ chk.tokens[q][t].in_play
                             /\ chk.tokens[q][t].position = f}
          IN  \A f \in 1..chk.n_fields :
                 IF on(f) = {} THEN chk.current_state[f] = EMPTY
                 ELSE chk.current_state[f] \in on(f)


----------------------------------------------------------------------------
(* Claims about the replies a side has, checked under SpecChk *)

\* the replies with every target in 0..n_fields that _check_move accepts
\* for the tokens and the roll of the checked input
AcceptedOnBoard ==
    {move \in [DOMAIN chk.toks -> 0..chk.n_fields] :
        check_move(chk.toks, chk.n, move, chk.roll, chk.n_fields).ok}

\* C37: for the tokens of a side, no two on one field below n_fields, and
\* any roll there is a reply with every target in 0..n_fields that
\* _check_move accepts.
C37_SomeReplyAccepted == AcceptedOnBoard # {}


\* the child states find_multitoken_minimum recurses into from the checked
\* tokens with the checked roll
SolverChildren ==
    LET cs == Children(chk.n_fields, chk.roll, chk.toks["X"].position,
                       chk.toks["Y"].position)
    IN  {<<cs[i].X, cs[i].Y>> : i \in DOMAIN cs}

\* the positions (X, Y) a reply that _check_move accepts leaves the checked
\* tokens on
CheckerChildren ==
    {<<move["X"], move["Y"]>> :
        move \in {m \in [DOMAIN chk.toks ->
                           0..(chk.n_fields + ExtraTarget)] :
                     check_move(chk.toks, chk.n, m, chk.roll,
                                chk.n_fields).ok}}

\* C38: for two tokens and a roll, the child states the two-token solver
\* explores, stays included, are the states the replies that _check_move
\* accepts lead to.
C38_SolverAgreesWithChecker ==
    chk.n = 2 => SolverChildren = CheckerChildren


----------------------------------------------------------------------------
(* Claims about failed replies, checked under Spec *)

\* the step is a reply that did not parse or that _check_move rejected
FailedReply == asked' # asked /\ last' \in {"rejected", "unparsed"}

\* C39: a failed reply leaves the token positions and in_play flags, the
\* board and the turn index as they were, and changes nothing but the
\* reprompt and retry counters and the error counter: the stored error and
\* the abort flag are as they were, too.
C39_FailedReplyChangesCountersOnly ==
    [][FailedReply
          => UNCHANGED <<tokens, current_state, turn, index, game_result,
                         error, is_aborted>>]_vars

\* C39, amended: a failed reply leaves the token positions and in_play
\* flags, the board and the turn index as they were. Besides the counters a
\* rejection without reprompting leaves its reason in the stored error, and
\* the rejection that uses up the attempts, the third with reprompting and
\* the first without, sets the abort flag.
C39_FailedReplyKeepsBoard ==
    [][FailedReply
          => /\ UNCHANGED <<tokens, current_state, turn, index, game_result>>
             /\ error' # error => (~reprompting /\ last' = "rejected")
             /\ is_aborted' # is_aborted => last' = "rejected"
             /\ last' = "rejected"
                   => is_aborted' = (IF reprompting
                                     THEN reprompt_attempts' = REPROMPT_LIMIT
                                     ELSE TRUE)]_vars

\* the third rejected reply of a turn, with a token on the board
C39_Witness ==
    /\ reprompting
    /\ last = "rejected"
    /\ is_aborted
    /\ reprompt_attempts = REPROMPT_LIMIT
    /\ turn = 1
    /\ tokens["Player 1"]["X"].position = 1
    /\ current_state[1] = "X"


----------------------------------------------------------------------------
(* SpecReach: the search paths from the all-home state *)

ReachFields == 3
ReachRolls == 3

\* the roll pairs of a turn: a six for both sides, for one side, for neither
ReachPairs == {<<6, 6>>, <<6, 1>>, <<1, 6>>, <<1, 2>>}

\* minimax called on the state with every token at home, at turn 0
InitReach ==
    /\ EngineIdle
    /\ chk = NoCall
    /\ \E n \in {1, 2} :
          LET home == [t \in (IF n = 1 THEN {"X", "A"}
                              ELSE {"X", "Y", "A", "B"}) |-> 0]
          IN  dp \in {[op |-> "node",
                       start |-> GameSim(ReachFields, n, home, rs, 0),
                       first |-> b,
                       game_state |-> GameSim(ReachFields, n, home, rs, 0),
                       maximizing_player |-> b, depth |-> 1, mover |-> -1,
                       roll |-> 0, move |-> NoMove] :
                         b \in BOOLEAN,
                         rs \in [1..ReachRolls -> ReachPairs]}

SpecReach == InitReach /\ [][NextPath]_vars

\* C40: in a state reached from the all-home state by possible moves no
\* field in 1..n_fields-1 holds more than one token, of either side, and
\* every token stands on a position in 0..n_fields.
C40_ReachableStatesSound ==
    dp.op \in {"node", "leaf"}
       => LET q == dp.game_state.token_positions
          IN  /\ \A t \in DOMAIN q : q[t] \in 0..dp.game_state.n_fields
              /\ \A a, b \in DOMAIN q :
                    (a # b /\ q[a] = q[b])
                       => q[a] \notin 1..(dp.game_state.n_fields - 1)

\* A entered on field 1, then X entered on field 1 and sent A home
C40_Witness ==
    /\ dp.op = "node"
    /\ dp.game_state.n_tokens = 1
    /\ dp.first
    /\ dp.depth = 3
    /\ dp.move = <<"X", 1>>
    /\ dp.start.rolls[1][2] = 6
    /\ dp.game_state.token_positions["X"] = 1
    /\ dp.game_state.token_positions["A"] = 0

====
